---- MODULE Spec2Model ----
(***************************************************************************)
(* DAMX daemon (Windows): the feature manager (DAMXManager), the command   *)
(* dispatcher and named-pipe server (DaemonServer), the daemon lifecycle   *)
(* (DAMXDaemon) and the power-source poller (PowerSourceDetector).         *)
(*                                                                         *)
(* Seven specifications share the definitions below:                       *)
(*   CmdSpec     process_command applied to one command at a time, with    *)
(*               the platform's answers drawn from bounded sets;           *)
(*   IpcSpec     the daemon run without the power monitor (the import of   *)
(*               PowerSourceDetection failed): accept loop, one worker per *)
(*               connection, clients that send frames, SIGINT, cleanup;    *)
(*   FairIpcSpec the same daemon with clients that send get_version only,  *)
(*               with weak fairness for the main thread and the workers;   *)
(*   FramingSpec the same daemon with clients whose payload can be shorter *)
(*               than the length prefix announced;                         *)
(*   Spec        the daemon run with the power monitor: setup(), run(),    *)
(*               the accept loop, the timer threads of the poller, SIGINT  *)
(*               and cleanup, with clients that connect and disconnect;    *)
(*   FairSpec    Spec with weak fairness for the threads of the daemon;    *)
(*   BootSpec    Spec started with WMI reachable or out of reach.          *)
(***************************************************************************)
EXTENDS Integers, Sequences, FiniteSets, TLC

VARIABLES
    \* DAMXManager fields (wmi_ok: wmi_connection and wmi_root are not None)
    wmi_ok, laptop_type, has_four_zone_kb, available_features,
    \* platform: the active Windows power scheme, the real power source
    active_scheme, on_ac,
    \* the last process_command call: its inputs, what it returned, and the
    \* platform calls made while it ran ("idle" when none is recorded)
    cmd_state, last_cmd, last_params, last_env, last_resp, last_calls,
    \* DAMXDaemon: whether self.power_monitor is a detector, the position of
    \* the main thread, self.running, whether self.server exists
    power_monitor, main_pc, daemon_running, server_created,
    \* DaemonServer.running; SIGINT raised and its Python handler not yet run;
    \* whether SIGINT was ever raised
    server_running, sig_pending, signalled,
    \* per connection: the client's end, the server's handle, the worker's
    \* position, the frames sent and not yet read, the frames read, the
    \* response about to be written, the WriteFile calls made so far;
    \* nsent: how many frames the clients have sent in all
    client, handle, wpc, inbox, nsent, reqs, wresp, attempts,
    \* PowerSourceDetector: current_source, which chain's Timer self.timer
    \* refers to (0: None); per chain of polls: position, the local
    \* is_plugged_in, the profile _handle_power_change decided to set, the
    \* current_profile it read ("" outside the handler)
    current_source, timer, ppc, plugged, target, handler_profile,
    \* stop_monitoring() has returned; set_thermal_profile calls made by the
    \* poller since it last observed AC
    monitor_stopped, switch_count

mgrVars == <<wmi_ok, laptop_type, has_four_zone_kb, available_features>>
platVars == <<active_scheme, on_ac>>
cmdVars == <<cmd_state, last_cmd, last_params, last_env, last_resp, last_calls>>
mainVars == <<power_monitor, main_pc, daemon_running, server_created,
              server_running, sig_pending, signalled>>
connVars == <<client, handle, wpc, inbox, nsent, reqs, wresp, attempts>>
pollVars == <<current_source, timer, ppc, plugged, target, handler_profile,
              monitor_stopped, switch_count>>

VERSION == "0.4.6"

-----------------------------------------------------------------------------
(* JSON / Python values.  Every value is a record whose only field names   *)
(* its Python type, so that values of different types can be compared.     *)

None == [none |-> TRUE]
JStr(s) == [str |-> s]
JInt(n) == [int |-> n]
JBool(b) == [bool |-> b]
JList(s) == [list |-> s]
JDict(f) == [dict |-> f]
EmptyDict == JDict(<<>>)

IsDict(v) == "dict" \in DOMAIN v
IsStr(v) == "str" \in DOMAIN v
\* bool is a subclass of int in Python: True == 1, False == 0
IsNumber(v) == "int" \in DOMAIN v \/ "bool" \in DOMAIN v
NumberOf(v) == IF "int" \in DOMAIN v THEN v.int ELSE IF v.bool THEN 1 ELSE 0

TypeName(v) ==
    IF "none" \in DOMAIN v THEN "NoneType"
    ELSE IF "str" \in DOMAIN v THEN "str"
    ELSE IF "int" \in DOMAIN v THEN "int"
    ELSE IF "bool" \in DOMAIN v THEN "bool"
    ELSE IF "list" \in DOMAIN v THEN "list"
    ELSE "dict"

\* str(e) of the AttributeError raised by v.attr on a value without attr
NoAttributeMsg(v, attr) ==
    "'" \o TypeName(v) \o "' object has no attribute '" \o attr \o "'"

\* dict.get(key, default); the caller checks IsDict first
DictGet(d, key, default) ==
    IF key \in DOMAIN d.dict THEN d.dict[key] ELSE default

-----------------------------------------------------------------------------
(* DAMXManager.__init__ : the device profile                               *)

Features ==
    {"thermal_profile", "backlight_timeout", "battery_calibration",
     "battery_limiter", "boot_animation_sound", "fan_speed", "lcd_override",
     "usb_charging", "per_zone_mode", "four_zone_mode"}

\* What the platform inventory answers at startup.
\*   wmi      wmi.WMI() could be opened
\*   system   Win32_ComputerSystem: "raises", "none", or the markers found in
\*            the manufacturer/model strings
\*   battery  Win32_Battery: "raises", "absent", "present"
\*   keyboard Win32_Keyboard: "raises", "other", "acer"
Inventories ==
    [wmi : BOOLEAN,
     system : {"raises", "none", "other", "acer", "acer_predator",
               "acer_nitro", "acer_predator_nitro", "predator"},
     battery : {"raises", "absent", "present"},
     keyboard : {"raises", "other", "acer"}]

_detect_laptop_type(inv) ==
    IF ~inv.wmi THEN "UNKNOWN"
    ELSE CASE inv.system \in {"acer_predator", "acer_predator_nitro"} -> "PREDATOR"
           [] inv.system = "acer_nitro" -> "NITRO"
           [] OTHER -> "UNKNOWN"

_check_four_zone_kb(inv) == inv.wmi /\ inv.keyboard = "acer"

_detect_available_features(inv, ltype) ==
    IF inv.wmi /\ inv.battery = "raises" THEN {}
    ELSE (IF inv.wmi /\ inv.battery = "present"
            THEN {"battery_calibration", "battery_limiter"} ELSE {})
         \cup {"thermal_profile"}
         \cup (IF ltype # "UNKNOWN"
                 THEN {"fan_speed", "boot_animation_sound",
                       "backlight_timeout", "lcd_override"}
                 ELSE {})

ManagerInit(inv) ==
    /\ wmi_ok = inv.wmi
    /\ laptop_type = _detect_laptop_type(inv)
    /\ has_four_zone_kb = _check_four_zone_kb(inv)
    /\ available_features = _detect_available_features(inv, _detect_laptop_type(inv))

-----------------------------------------------------------------------------
(* Thermal profile: Windows power schemes                                  *)

GUID_HIGH_PERFORMANCE == "8c5e7fda-e8bf-4a96-9a85-a6e23a8c635c"
GUID_BALANCED == "381b4222-f694-41f0-9685-ff5bb260df2e"
GUID_POWER_SAVER == "a1841308-3541-4fab-bc81-f71556f20b4a"
\* a scheme of the platform that set_thermal_profile never names, with a
\* name that holds none of the keywords get_thermal_profile looks for
GUID_OTHER == "e9a42b02-d5df-448d-aa00-03f14749eb61"

Schemes == {GUID_HIGH_PERFORMANCE, GUID_BALANCED, GUID_POWER_SAVER, GUID_OTHER}

ProfileNames ==
    {"low-power", "quiet", "balanced", "balanced-performance", "performance"}

\* the strings tried as profile names
ProfileInputs ==
    ProfileNames \cup
    {"Performance", "BALANCED", "Quiet", "LOW-POWER", "Balanced-Performance",
     "turbo", "eco", "power saver", "high performance", ""}

\* str.lower() on the strings above
Lower(s) ==
    CASE s = "Performance" -> "performance"
      [] s = "BALANCED" -> "balanced"
      [] s = "Quiet" -> "quiet"
      [] s = "LOW-POWER" -> "low-power"
      [] s = "Balanced-Performance" -> "balanced-performance"
      [] OTHER -> s

\* scheme_map.get with the default taken from another row of the table
SchemeMapGet_WrongDefault(name) ==
    CASE name = "performance" -> GUID_HIGH_PERFORMANCE
      [] name = "balanced-performance" -> GUID_HIGH_PERFORMANCE
      [] name = "balanced" -> GUID_BALANCED
      [] name = "quiet" -> GUID_POWER_SAVER
      [] name = "low-power" -> GUID_POWER_SAVER
      [] OTHER -> GUID_POWER_SAVER

\* scheme_map with the balanced GUID pasted into the row of 'quiet'
SchemeMapGet_QuietPastedBalanced(name) ==
    CASE name = "performance" -> GUID_HIGH_PERFORMANCE
      [] name = "balanced-performance" -> GUID_HIGH_PERFORMANCE
      [] name = "balanced" -> GUID_BALANCED
      [] name = "quiet" -> GUID_BALANCED
      [] name = "low-power" -> GUID_POWER_SAVER
      [] OTHER -> GUID_BALANCED

\* scheme_map.get(name, <balanced>)
SchemeMapGet(name) ==
    CASE name = "performance" -> GUID_HIGH_PERFORMANCE
      [] name = "balanced-performance" -> GUID_HIGH_PERFORMANCE
      [] name = "balanced" -> GUID_BALANCED
      [] name = "quiet" -> GUID_POWER_SAVER
      [] name = "low-power" -> GUID_POWER_SAVER
      [] OTHER -> GUID_BALANCED

\* a platform call, as the argv or the WMI member it touches
PowercfgSetActive(guid) == <<"powercfg", "/setactive", guid>>
PowercfgGetActive == <<"powercfg", "/getactivescheme">>

\* The result of a manager method: its return value, the message of the
\* exception it raised ("" when none), the platform calls it made and the
\* active scheme it left.
Ret(value, calls, scheme) ==
    [ret |-> value, raised |-> "", calls |-> calls, scheme |-> scheme]
Raise(msg, calls, scheme) ==
    [ret |-> None, raised |-> msg, calls |-> calls, scheme |-> scheme]

\* set_thermal_profile(profile); powercfg_ok: whether powercfg /setactive
\* exits with status 0
set_thermal_profile(features, scheme, profile, powercfg_ok) ==
    IF "thermal_profile" \notin features THEN Ret(JBool(FALSE), <<>>, scheme)
    ELSE IF ~IsStr(profile) THEN Raise(NoAttributeMsg(profile, "lower"), <<>>, scheme)
    ELSE LET guid == SchemeMapGet(Lower(profile.str))
         IN  IF powercfg_ok
               THEN Ret(JBool(TRUE), <<PowercfgSetActive(guid)>>, guid)
               ELSE Ret(JBool(FALSE), <<PowercfgSetActive(guid)>>, scheme)

\* the keywords found in the lower-cased output of powercfg /getactivescheme
\* when the scheme is active ("" : the call failed or printed nothing)
OutputKeywords(scheme) ==
    CASE scheme = GUID_BALANCED -> {"balanced"}
      [] scheme = GUID_HIGH_PERFORMANCE -> {"high performance", "performance"}
      [] scheme = GUID_POWER_SAVER -> {"power saver"}
      [] OTHER -> {}

\* get_thermal_profile without the branch for the performance keywords
get_thermal_profile_NoPerformanceBranch(features, scheme, query_ok) ==
    IF "thermal_profile" \notin features THEN ""
    ELSE LET out == IF query_ok THEN OutputKeywords(scheme) ELSE {}
         IN  IF "balanced" \in out THEN "balanced"
             ELSE IF "power saver" \in out THEN "low-power"
             ELSE "balanced"

\* get_thermal_profile(); query_ok: whether powercfg ran and printed the scheme
get_thermal_profile(features, scheme, query_ok) ==
    IF "thermal_profile" \notin features THEN ""
    ELSE LET out == IF query_ok THEN OutputKeywords(scheme) ELSE {}
         IN  IF "balanced" \in out THEN "balanced"
             ELSE IF "high performance" \in out \/ "performance" \in out
                    THEN "performance"
             ELSE IF "power saver" \in out THEN "low-power"
             ELSE "balanced"

get_thermal_profile_choices(features) ==
    IF "thermal_profile" \notin features THEN <<>>
    ELSE <<"low-power", "quiet", "balanced", "balanced-performance", "performance">>

-----------------------------------------------------------------------------
(* Fan speed                                                               *)

\* How the platform answers the fan-control attempts of set_fan_speed, and
\* the external tools the other commands run.
\*   controller  AcerGaming_FanSpeedController.SetFanSpeed: "absent" (no
\*               namespace, no class, no instance or no such method), "ok",
\*               "raises" (the method call fails)
\*   separate    AcerGaming_CpuFanSpeed / AcerGaming_GpuFanSpeed SetSpeed:
\*               "absent" or "ok"
\*   acmc        AcerACMCEvent.SetFanManual: "absent" or "ok"
\*   ps          exit status of the PowerShell script: "exit0" or "exit1"
\*   powercfg_ok powercfg /setactive exits with 0
\*   query_ok    powercfg /getactivescheme runs and prints the scheme
\*   sc          sc stop / sc start: "ok", "start_fails", "missing"
PlatformEnvs ==
    [controller : {"absent", "ok", "raises"},
     separate : {"absent", "ok"},
     acmc : {"absent", "ok"},
     ps : {"exit0", "exit1"},
     powercfg_ok : BOOLEAN,
     query_ok : BOOLEAN,
     sc : {"ok", "start_fails", "missing"}]

\* the platform answering every call the plain way and no fan control
DefaultEnv ==
    [controller |-> "absent", separate |-> "absent", acmc |-> "absent",
     ps |-> "exit1", powercfg_ok |-> TRUE, query_ok |-> TRUE, sc |-> "ok"]

WmiConnect == <<"wmi", "root/WMI">>
WmiControllerSetFanSpeed == <<"wmi", "AcerGaming_FanSpeedController", "SetFanSpeed">>
WmiCpuSetSpeed == <<"wmi", "AcerGaming_CpuFanSpeed", "SetSpeed">>
WmiGpuSetSpeed == <<"wmi", "AcerGaming_GpuFanSpeed", "SetSpeed">>
WmiAcmcSetFanManual == <<"wmi", "AcerACMCEvent", "SetFanManual">>
WmiAcmcSetFanSpeed == <<"wmi", "AcerACMCEvent", "SetFanSpeed">>
PowershellFan == <<"powershell", "-Command", "Invoke-CimMethod">>

\* str(e) of the TypeError of  0 <= v  for a v that is no number
NotOrderedMsg(v) ==
    "'<=' not supported between instances of 'int' and '" \o TypeName(v) \o "'"

\* 0 <= v <= 100 for a number v
InRange(v) == 0 <= NumberOf(v) /\ NumberOf(v) <= 100

\* the three vendor control methods, tried in order after validation:
\* [done |-> one of them returned True, calls |-> the platform calls made]
VendorFanControl(cpu, gpu, env) ==
    LET m1 == <<WmiConnect>> \o
              (IF env.controller = "absent" THEN <<>> ELSE <<WmiControllerSetFanSpeed>>)
        sep == IF env.separate = "ok" THEN <<WmiCpuSetSpeed, WmiGpuSetSpeed>> ELSE <<>>
        m2 == <<WmiConnect>> \o
              (IF env.acmc = "absent" THEN <<>>
               ELSE IF NumberOf(cpu) = 0 /\ NumberOf(gpu) = 0
                      THEN <<WmiAcmcSetFanManual>>
                      ELSE <<WmiAcmcSetFanManual, WmiAcmcSetFanSpeed>>)
        m3 == <<PowershellFan>>
    IN  IF env.controller = "ok" THEN [done |-> TRUE, calls |-> m1]
        ELSE IF env.acmc = "ok" THEN [done |-> TRUE, calls |-> m1 \o sep \o m2]
        ELSE IF env.ps = "exit0" THEN [done |-> TRUE, calls |-> m1 \o sep \o m2 \o m3]
        ELSE [done |-> FALSE, calls |-> m1 \o sep \o m2 \o m3]

\* set_fan_speed validating the CPU value only
set_fan_speed_CpuOnlyValidated(features, scheme, cpu, gpu, env) ==
    IF "fan_speed" \notin features THEN Ret(JBool(FALSE), <<>>, scheme)
    ELSE IF ~IsNumber(cpu) THEN Raise(NotOrderedMsg(cpu), <<>>, scheme)
    ELSE IF ~InRange(cpu) THEN Ret(JBool(FALSE), <<>>, scheme)
    ELSE IF ~IsNumber(gpu) THEN Raise(NotOrderedMsg(gpu), <<>>, scheme)
    ELSE LET v == VendorFanControl(cpu, gpu, env)
             wanted == IF NumberOf(cpu) >= 80 /\ NumberOf(gpu) >= 80 THEN "performance"
                       ELSE IF NumberOf(cpu) = 0 /\ NumberOf(gpu) = 0 THEN "balanced"
                       ELSE ""
         IN  IF v.done THEN Ret(JBool(TRUE), v.calls, scheme)
             ELSE IF "thermal_profile" \in features /\ wanted # ""
               THEN LET t == set_thermal_profile(features, scheme, JStr(wanted),
                                                 env.powercfg_ok)
                    IN  Ret(JBool(TRUE), v.calls \o t.calls, t.scheme)
             ELSE Ret(JBool(FALSE), v.calls, scheme)

\* set_fan_speed whose fallback takes one high speed for both
set_fan_speed_EitherHigh(features, scheme, cpu, gpu, env) ==
    IF "fan_speed" \notin features THEN Ret(JBool(FALSE), <<>>, scheme)
    ELSE IF ~IsNumber(cpu) THEN Raise(NotOrderedMsg(cpu), <<>>, scheme)
    ELSE IF ~InRange(cpu) THEN Ret(JBool(FALSE), <<>>, scheme)
    ELSE IF ~IsNumber(gpu) THEN Raise(NotOrderedMsg(gpu), <<>>, scheme)
    ELSE IF ~InRange(gpu) THEN Ret(JBool(FALSE), <<>>, scheme)
    ELSE LET v == VendorFanControl(cpu, gpu, env)
             wanted == IF NumberOf(cpu) >= 80 \/ NumberOf(gpu) >= 80 THEN "performance"
                       ELSE IF NumberOf(cpu) = 0 /\ NumberOf(gpu) = 0 THEN "balanced"
                       ELSE ""
         IN  IF v.done THEN Ret(JBool(TRUE), v.calls, scheme)
             ELSE IF "thermal_profile" \in features /\ wanted # ""
               THEN LET t == set_thermal_profile(features, scheme, JStr(wanted),
                                                 env.powercfg_ok)
                    IN  Ret(JBool(TRUE), v.calls \o t.calls, t.scheme)
             ELSE Ret(JBool(FALSE), v.calls, scheme)

\* set_fan_speed whose fallback returns what set_thermal_profile returned
set_fan_speed_FallbackChecked(features, scheme, cpu, gpu, env) ==
    IF "fan_speed" \notin features THEN Ret(JBool(FALSE), <<>>, scheme)
    ELSE IF ~IsNumber(cpu) THEN Raise(NotOrderedMsg(cpu), <<>>, scheme)
    ELSE IF ~InRange(cpu) THEN Ret(JBool(FALSE), <<>>, scheme)
    ELSE IF ~IsNumber(gpu) THEN Raise(NotOrderedMsg(gpu), <<>>, scheme)
    ELSE IF ~InRange(gpu) THEN Ret(JBool(FALSE), <<>>, scheme)
    ELSE LET v == VendorFanControl(cpu, gpu, env)
             wanted == IF NumberOf(cpu) >= 80 /\ NumberOf(gpu) >= 80 THEN "performance"
                       ELSE IF NumberOf(cpu) = 0 /\ NumberOf(gpu) = 0 THEN "balanced"
                       ELSE ""
         IN  IF v.done THEN Ret(JBool(TRUE), v.calls, scheme)
             ELSE IF "thermal_profile" \in features /\ wanted # ""
               THEN LET t == set_thermal_profile(features, scheme, JStr(wanted),
                                                 env.powercfg_ok)
                    IN  Ret(t.ret, v.calls \o t.calls, t.scheme)
             ELSE Ret(JBool(FALSE), v.calls, scheme)

set_fan_speed(features, scheme, cpu, gpu, env) ==
    IF "fan_speed" \notin features THEN Ret(JBool(FALSE), <<>>, scheme)
    ELSE IF ~IsNumber(cpu) THEN Raise(NotOrderedMsg(cpu), <<>>, scheme)
    ELSE IF ~InRange(cpu) THEN Ret(JBool(FALSE), <<>>, scheme)
    ELSE IF ~IsNumber(gpu) THEN Raise(NotOrderedMsg(gpu), <<>>, scheme)
    ELSE IF ~InRange(gpu) THEN Ret(JBool(FALSE), <<>>, scheme)
    ELSE LET v == VendorFanControl(cpu, gpu, env)
             wanted == IF NumberOf(cpu) >= 80 /\ NumberOf(gpu) >= 80 THEN "performance"
                       ELSE IF NumberOf(cpu) = 0 /\ NumberOf(gpu) = 0 THEN "balanced"
                       ELSE ""
         IN  IF v.done THEN Ret(JBool(TRUE), v.calls, scheme)
             ELSE IF "thermal_profile" \in features /\ wanted # ""
               THEN LET t == set_thermal_profile(features, scheme, JStr(wanted),
                                                 env.powercfg_ok)
                    IN  Ret(JBool(TRUE), v.calls \o t.calls, t.scheme)
             ELSE Ret(JBool(FALSE), v.calls, scheme)

-----------------------------------------------------------------------------
(* The setters and administrative methods that only log on Windows         *)

set_backlight_timeout(enabled) == JBool(FALSE)
set_battery_calibration(enabled) == JBool(FALSE)
set_battery_limiter(enabled) == JBool(FALSE)
set_boot_animation_sound(enabled) == JBool(FALSE)
set_lcd_override(enabled) == JBool(FALSE)
set_usb_charging(level) == JBool(FALSE)
set_per_zone_mode(zone1, zone2, zone3, zone4, brightness) == JBool(FALSE)
set_four_zone_mode(mode, speed, brightness, direction, red, green, blue) == JBool(FALSE)
_force_model_nitro == JBool(FALSE)
_force_model_predator == JBool(FALSE)
_force_enable_all == JBool(FALSE)
get_modprobe_parameter == ""
set_modprobe_parameter(param) == JBool(FALSE)
_remove_modprobe_parameter == JBool(TRUE)

ScStop == <<"sc", "stop", "DAMXDaemon">>
ScStart == <<"sc", "start", "DAMXDaemon">>

\* _restart_daemon as a stub like the force_* methods: log, return False
_restart_daemon_Stub(scheme, env) == Ret(JBool(FALSE), <<>>, scheme)

\* _restart_daemon(): sc stop (status ignored), sleep, sc start (checked)
_restart_daemon(scheme, env) ==
    CASE env.sc = "ok" -> Ret(JBool(TRUE), <<ScStop, ScStart>>, scheme)
      [] env.sc = "start_fails" -> Ret(JBool(FALSE), <<ScStop, ScStart>>, scheme)
      [] OTHER -> Ret(JBool(FALSE), <<ScStop>>, scheme)

_restart_drivers_and_daemon(scheme, env) == _restart_daemon(scheme, env)

-----------------------------------------------------------------------------
(* Getters behind get_all_settings                                         *)

\* How the platform answers the sensor queries of get_fan_speed and the
\* driver query.  A reading is the string str() makes of the sensor value;
\* "none" stands for a class, instance, attribute or sensor that is not there.
\*   combined  AcerGaming_FanSpeed: CpuFanSpeed and GpuFanSpeed
\*   cpu_cls   AcerGaming_CpuFanSpeed.CurrentSpeed
\*   gpu_cls   AcerGaming_GpuFanSpeed.CurrentSpeed
\*   win32_fan Win32_Fan.DesiredSpeed (first instance)
\*   ohm, lhm  the Fan sensors of Open/Libre Hardware Monitor: the value of
\*             the CPU fan sensor and of the GPU fan sensor
\*   driver    Win32_SystemDriver(Name='ACPI'): "raises", "none", "nopath",
\*             "path"
NoSensor == [cpu |-> "none", gpu |-> "none"]

SensorEnvs ==
    [combined : {NoSensor, [cpu |-> "0", gpu |-> "0"], [cpu |-> "2100", gpu |-> "0"],
                 [cpu |-> "2100", gpu |-> "2101"]},
     cpu_cls : {"none", "0", "2200"},
     gpu_cls : {"none", "2300"},
     win32_fan : {"none", "0", "2400"},
     ohm : {NoSensor, [cpu |-> "2500", gpu |-> "none"], [cpu |-> "0", gpu |-> "2501"]},
     lhm : {NoSensor, [cpu |-> "0", gpu |-> "none"], [cpu |-> "2600", gpu |-> "2601"]},
     driver : {"raises", "none", "nopath", "path"}]

DefaultSensors ==
    [combined |-> NoSensor, cpu_cls |-> "none", gpu_cls |-> "none",
     win32_fan |-> "none", ohm |-> NoSensor, lhm |-> NoSensor, driver |-> "path"]

\* the assignments one group of sensors makes to (cpu_fan, gpu_fan)
SensorUpdate(pair, sensors) ==
    <<IF sensors.cpu = "none" THEN pair[1] ELSE sensors.cpu,
      IF sensors.gpu = "none" THEN pair[2] ELSE sensors.gpu>>

get_fan_speed(features, wmiroot, se) ==
    IF "fan_speed" \notin features THEN <<"", "">>
    ELSE LET a == SensorUpdate(<<"0", "0">>, se.combined)
             b == SensorUpdate(a, [cpu |-> se.cpu_cls, gpu |-> se.gpu_cls])
             c == SensorUpdate(b, [cpu |-> IF wmiroot THEN se.win32_fan ELSE "none",
                                   gpu |-> "none"])
             d == SensorUpdate(c, se.ohm)
             e == SensorUpdate(d, se.lhm)
         IN  IF a[1] # "0" \/ a[2] # "0" THEN a
             ELSE IF b[1] # "0" \/ b[2] # "0" THEN b
             ELSE e

get_driver_version(wmiconn, se) ==
    IF ~wmiconn THEN "Windows WMI"
    ELSE CASE se.driver = "raises" -> "Unknown Version"
           [] se.driver = "none" -> "Windows WMI"
           [] se.driver = "nopath" -> "ACPI Driver"
           [] OTHER -> "C:\\Windows\\system32\\drivers\\ACPI.sys"

get_backlight_timeout == "0"
get_battery_calibration == "0"
get_battery_limiter == "0"
get_boot_animation_sound == "0"
get_lcd_override == "0"
get_usb_charging == "0"
get_per_zone_mode == ""
get_four_zone_mode == ""

\* list(a set): a list of its elements in no particular order
JSet(s) == [set |-> s]

\* the keys get_all_settings always sets, and those it sets for an
\* available feature only
\* the unconditional keys with usb_charging set without its feature test
SettingsAlways_WithUsbCharging ==
    {"laptop_type", "has_four_zone_kb", "available_features", "version",
     "driver_version", "modprobe_parameter", "thermal_profile", "usb_charging"}

SettingsAlways ==
    {"laptop_type", "has_four_zone_kb", "available_features", "version",
     "driver_version", "modprobe_parameter", "thermal_profile"}
SettingsGuarded ==
    {"backlight_timeout", "battery_calibration", "battery_limiter",
     "boot_animation_sound", "fan_speed", "lcd_override", "usb_charging",
     "per_zone_mode", "four_zone_mode"}

get_all_settings(wmiconn, ltype, kb, features, scheme, env, se) ==
    LET fan == get_fan_speed(features, wmiconn, se)
        value(k) ==
          CASE k = "laptop_type" -> JStr(ltype)
            [] k = "has_four_zone_kb" -> JBool(kb)
            [] k = "available_features" -> JSet(features)
            [] k = "version" -> JStr(VERSION)
            [] k = "driver_version" -> JStr(get_driver_version(wmiconn, se))
            [] k = "modprobe_parameter" -> JStr("")
            [] k = "thermal_profile" ->
                 JDict([current |-> JStr(get_thermal_profile(features, scheme, env.query_ok)),
                        available |-> JList(get_thermal_profile_choices(features))])
            [] k = "backlight_timeout" -> JStr(get_backlight_timeout)
            [] k = "battery_calibration" -> JStr(get_battery_calibration)
            [] k = "battery_limiter" -> JStr(get_battery_limiter)
            [] k = "boot_animation_sound" -> JStr(get_boot_animation_sound)
            [] k = "fan_speed" -> JDict([cpu |-> JStr(fan[1]), gpu |-> JStr(fan[2])])
            [] k = "lcd_override" -> JStr(get_lcd_override)
            [] k = "usb_charging" -> JStr(get_usb_charging)
            [] k = "per_zone_mode" -> JStr(get_per_zone_mode)
            [] k = "four_zone_mode" -> JStr(get_four_zone_mode)
    IN  JDict([k \in SettingsAlways \cup (SettingsGuarded \cap features) |-> value(k)])

\* the platform calls get_all_settings makes
SettingsCalls(wmiconn, features) ==
    (IF wmiconn THEN <<<<"wmi", "Win32_SystemDriver">>>> ELSE <<>>)
    \o (IF "thermal_profile" \in features THEN <<PowercfgGetActive>> ELSE <<>>)
    \o (IF "fan_speed" \in features THEN <<<<"wmi", "fan sensors">>>> ELSE <<>>)

-----------------------------------------------------------------------------
(* DaemonServer.process_command                                            *)

\* the response dictionaries process_command builds
ErrorResponse(msg) == [success |-> FALSE, error |-> JStr(msg)]
DataResponse(data) == [success |-> TRUE, data |-> data]
MessageResponse(msg) == [success |-> TRUE, message |-> JStr(msg)]
\* SetterResponse with the error text filled in whether or not the setter
\* succeeded
SetterResponse_ErrorAlways(success, data, failmsg) ==
    [success |-> success.bool,
     data |-> IF success.bool THEN data ELSE None,
     error |-> JStr(failmsg)]

\* {"success": s, "data": d if s else None, "error": msg if not s else None}
SetterResponse(success, data, failmsg) ==
    [success |-> success.bool,
     data |-> IF success.bool THEN data ELSE None,
     error |-> IF ~success.bool THEN JStr(failmsg) ELSE None]

\* what process_command hands back: the response, the platform calls made
\* while handling the command, and the active scheme afterwards
Handled(resp, calls, scheme) == [resp |-> resp, calls |-> calls, scheme |-> scheme]

NotSupported(label) == label \o " is not supported on this device"

\* the name each set_F command uses for its feature in the error message
FeatureLabel(feature) ==
    CASE feature = "thermal_profile" -> "Thermal profile"
      [] feature = "backlight_timeout" -> "Backlight timeout"
      [] feature = "battery_calibration" -> "Battery calibration"
      [] feature = "battery_limiter" -> "Battery limiter"
      [] feature = "boot_animation_sound" -> "Boot animation sound"
      [] feature = "fan_speed" -> "Fan speed control"
      [] feature = "lcd_override" -> "LCD override"
      [] feature = "usb_charging" -> "USB charging control"
      [] feature = "per_zone_mode" -> "Per-zone keyboard mode"
      [] feature = "four_zone_mode" -> "Four-zone keyboard mode"

\* the except clause of process_command: a raised exception becomes
\* {"success": False, "error": str(e)}
Caught(r) == Handled(ErrorResponse(r.raised), r.calls, r.scheme)

\* manager.set_F(v) for the setters that take one parameter and only log
CallSetter(feature, v) ==
    CASE feature = "backlight_timeout" -> set_backlight_timeout(v)
      [] feature = "battery_calibration" -> set_battery_calibration(v)
      [] feature = "battery_limiter" -> set_battery_limiter(v)
      [] feature = "boot_animation_sound" -> set_boot_animation_sound(v)
      [] feature = "lcd_override" -> set_lcd_override(v)
      [] feature = "usb_charging" -> set_usb_charging(v)

\* a one-parameter setter branch without the available_features check
OneParamSetter_Unguarded(features, scheme, params, feature, key, default, failmsg) ==
    IF ~IsDict(params)
      THEN Handled(ErrorResponse(NoAttributeMsg(params, "get")), <<>>, scheme)
    ELSE LET v == DictGet(params, key, default)
         IN  Handled(SetterResponse(CallSetter(feature, v), JDict([k \in {key} |-> v]),
                                    failmsg),
                     <<>>, scheme)

\* the branches of the form
\*   if F not in available_features: return <not supported>
\*   v = params.get(key, default); success = manager.set_F(v)
OneParamSetter(features, scheme, params, feature, key, default, failmsg) ==
    IF feature \notin features
      THEN Handled(ErrorResponse(NotSupported(FeatureLabel(feature))), <<>>, scheme)
    ELSE IF ~IsDict(params)
      THEN Handled(ErrorResponse(NoAttributeMsg(params, "get")), <<>>, scheme)
    ELSE LET v == DictGet(params, key, default)
         IN  Handled(SetterResponse(CallSetter(feature, v), JDict([k \in {key} |-> v]),
                                    failmsg),
                     <<>>, scheme)

\* params.get for each key of defaults (a record of default values)
ParamsWithDefaults(params, defaults) ==
    JDict([k \in DOMAIN defaults |-> DictGet(params, k, defaults[k])])

PerZoneDefaults ==
    [zone1 |-> JStr("000000"), zone2 |-> JStr("000000"), zone3 |-> JStr("000000"),
     zone4 |-> JStr("000000"), brightness |-> JInt(100)]
FourZoneDefaults ==
    [mode |-> JInt(0), speed |-> JInt(0), brightness |-> JInt(100),
     direction |-> JInt(1), red |-> JInt(0), green |-> JInt(0), blue |-> JInt(0)]

Cmd_get_thermal_profile(features, scheme, env) ==
    IF "thermal_profile" \notin features
      THEN Handled(ErrorResponse(NotSupported(FeatureLabel("thermal_profile"))),
                   <<>>, scheme)
    ELSE Handled(DataResponse(JDict(
                    [current |-> JStr(get_thermal_profile(features, scheme, env.query_ok)),
                     available |-> JList(get_thermal_profile_choices(features))])),
                 <<PowercfgGetActive>>, scheme)

Cmd_set_thermal_profile(features, scheme, params, env) ==
    IF "thermal_profile" \notin features
      THEN Handled(ErrorResponse(NotSupported(FeatureLabel("thermal_profile"))),
                   <<>>, scheme)
    ELSE IF ~IsDict(params)
      THEN Handled(ErrorResponse(NoAttributeMsg(params, "get")), <<>>, scheme)
    ELSE LET profile == DictGet(params, "profile", JStr(""))
             r == set_thermal_profile(features, scheme, profile, env.powercfg_ok)
         IN  IF r.raised # "" THEN Caught(r)
             ELSE Handled(SetterResponse(r.ret, JDict([profile |-> profile]),
                                         "Failed to set thermal profile"),
                          r.calls, r.scheme)

Cmd_set_fan_speed(features, scheme, params, env) ==
    IF "fan_speed" \notin features
      THEN Handled(ErrorResponse(NotSupported(FeatureLabel("fan_speed"))), <<>>, scheme)
    ELSE IF ~IsDict(params)
      THEN Handled(ErrorResponse(NoAttributeMsg(params, "get")), <<>>, scheme)
    ELSE LET cpu == DictGet(params, "cpu", JInt(0))
             gpu == DictGet(params, "gpu", JInt(0))
             r == set_fan_speed(features, scheme, cpu, gpu, env)
         IN  IF r.raised # "" THEN Caught(r)
             ELSE Handled(SetterResponse(r.ret, JDict([cpu |-> cpu, gpu |-> gpu]),
                                         "Failed to set fan speed"),
                          r.calls, r.scheme)

Cmd_set_per_zone_mode(features, scheme, params) ==
    IF "per_zone_mode" \notin features
      THEN Handled(ErrorResponse(NotSupported(FeatureLabel("per_zone_mode"))),
                   <<>>, scheme)
    ELSE IF ~IsDict(params)
      THEN Handled(ErrorResponse(NoAttributeMsg(params, "get")), <<>>, scheme)
    ELSE LET p == ParamsWithDefaults(params, PerZoneDefaults).dict
         IN  Handled(SetterResponse(
                        set_per_zone_mode(p.zone1, p.zone2, p.zone3, p.zone4, p.brightness),
                        JDict(p), "Failed to set per-zone mode"),
                     <<>>, scheme)

Cmd_set_four_zone_mode(features, scheme, params) ==
    IF "four_zone_mode" \notin features
      THEN Handled(ErrorResponse(NotSupported(FeatureLabel("four_zone_mode"))),
                   <<>>, scheme)
    ELSE IF ~IsDict(params)
      THEN Handled(ErrorResponse(NoAttributeMsg(params, "get")), <<>>, scheme)
    ELSE LET p == ParamsWithDefaults(params, FourZoneDefaults).dict
         IN  Handled(SetterResponse(
                        set_four_zone_mode(p.mode, p.speed, p.brightness, p.direction,
                                           p.red, p.green, p.blue),
                        JDict(p), "Failed to set four-zone mode"),
                     <<>>, scheme)

\* the force_* branches:  if success: {success, message} else: {success, error}
ForceResponse(success, okmsg, failmsg) ==
    IF success.bool THEN MessageResponse(okmsg) ELSE ErrorResponse(failmsg)

\* the set_modprobe_parameter_* branches
Cmd_set_modprobe_parameter(scheme, params, reads_params, value) ==
    IF reads_params /\ ~IsDict(params)
      THEN Handled(ErrorResponse(NoAttributeMsg(params, "get")), <<>>, scheme)
    ELSE Handled(SetterResponse(set_modprobe_parameter(value), None,
                                "Failed to set modprobe parameter"),
                 <<>>, scheme)

Cmd_restart(r, okmsg, failmsg) ==
    Handled(ForceResponse(r.ret, okmsg, failmsg), r.calls, r.scheme)

ProcessCommand(wmiconn, ltype, kb, features, scheme, command, params, env, se) ==
    CASE command = "get_all_settings" ->
           Handled(DataResponse(get_all_settings(wmiconn, ltype, kb, features, scheme, env, se)),
                   SettingsCalls(wmiconn, features), scheme)
      [] command = "get_thermal_profile" -> Cmd_get_thermal_profile(features, scheme, env)
      [] command = "set_thermal_profile" ->
           Cmd_set_thermal_profile(features, scheme, params, env)
      [] command = "set_backlight_timeout" ->
           OneParamSetter(features, scheme, params, "backlight_timeout", "enabled",
                          JBool(FALSE),
                          "Failed to set backlight timeout")
      [] command = "set_battery_calibration" ->
           OneParamSetter(features, scheme, params, "battery_calibration", "enabled",
                          JBool(FALSE),
                          "Failed to set battery calibration")
      [] command = "set_battery_limiter" ->
           OneParamSetter(features, scheme, params, "battery_limiter", "enabled",
                          JBool(FALSE),
                          "Failed to set battery limiter")
      [] command = "set_boot_animation_sound" ->
           OneParamSetter(features, scheme, params, "boot_animation_sound", "enabled",
                          JBool(FALSE),
                          "Failed to set boot animation sound")
      [] command = "set_fan_speed" -> Cmd_set_fan_speed(features, scheme, params, env)
      [] command = "set_lcd_override" ->
           OneParamSetter(features, scheme, params, "lcd_override", "enabled",
                          JBool(FALSE),
                          "Failed to set LCD override")
      [] command = "set_usb_charging" ->
           OneParamSetter(features, scheme, params, "usb_charging", "level",
                          JInt(0),
                          "Failed to set USB charging")
      [] command = "set_per_zone_mode" -> Cmd_set_per_zone_mode(features, scheme, params)
      [] command = "set_four_zone_mode" -> Cmd_set_four_zone_mode(features, scheme, params)
      [] command = "get_supported_features" ->
           Handled(DataResponse(JDict([available_features |-> JSet(features),
                                       laptop_type |-> JStr(ltype),
                                       has_four_zone_kb |-> JBool(kb)])),
                   <<>>, scheme)
      [] command = "get_version" ->
           Handled(DataResponse(JDict([version |-> JStr(VERSION)])), <<>>, scheme)
      [] command = "force_nitro_model" ->
           Handled(ForceResponse(_force_model_nitro,
                                 "Successfully forced Nitro model into driver",
                                 "Failed to force Nitro model into driver"),
                   <<>>, scheme)
      [] command = "force_predator_model" ->
           Handled(ForceResponse(_force_model_predator,
                                 "Successfully forced Predator model into driver",
                                 "Failed to force Predator model into driver (Model may not support it)"),
                   <<>>, scheme)
      [] command = "force_enable_all" ->
           Handled(ForceResponse(_force_enable_all,
                                 "Successfully forced all features into driver",
                                 "Failed to force all features into driver (Model may not support it)"),
                   <<>>, scheme)
      [] command = "get_modprobe_parameter" ->
           Handled(DataResponse(JDict([parameter |-> JStr(get_modprobe_parameter)])),
                   <<>>, scheme)
      [] command = "set_modprobe_parameter_nitro" ->
           Cmd_set_modprobe_parameter(scheme, params, FALSE, "nitro_v4")
      [] command = "set_modprobe_parameter_predator" ->
           Cmd_set_modprobe_parameter(scheme, params, TRUE, "predator_v4")
      [] command = "set_modprobe_parameter_enable_all" ->
           Cmd_set_modprobe_parameter(scheme, params, TRUE, "enable_all")
      [] command = "remove_modprobe_parameter" ->
           Handled([success |-> _remove_modprobe_parameter.bool,
                    message |-> JStr("Successfully removed modprobe parameter"),
                    error |-> None],
                   <<>>, scheme)
      [] command = "restart_daemon" ->
           Cmd_restart(_restart_daemon(scheme, env),
                       "Successfully restarted DAMX daemon",
                       "Failed to Restart DAMX daemon (Check logs for details)")
      [] command = "restart_drivers_and_daemon" ->
           Cmd_restart(_restart_drivers_and_daemon(scheme, env),
                       "Successfully restarted drivers and daemon",
                       "Failed to restart drivers and daemon")
      [] OTHER ->
           Handled(ErrorResponse("Unknown command: " \o command), <<>>, scheme)

\* the device profile the manager holds
ManagerState(ltype, kb, features) ==
    [laptop_type |-> ltype, has_four_zone_kb |-> kb, available_features |-> features]

\* the device profile with force_enable_all putting every feature in it
ManagerAfter_ForceEnablesAll(command, ltype, kb, features) ==
    IF command = "force_enable_all"
      THEN ManagerState(ltype, kb, Features)
      ELSE ManagerState(ltype, kb, features)

\* The device profile after process_command(command) has run: no branch of
\* process_command and no manager method it calls assigns laptop_type,
\* has_four_zone_kb or available_features (the force_* and modprobe methods
\* only log and return a constant).
ManagerAfter(command, ltype, kb, features) == ManagerState(ltype, kb, features)

-----------------------------------------------------------------------------
(* CmdSpec: process_command, one call at a time                            *)

Commands ==
    {"get_all_settings", "get_thermal_profile", "set_thermal_profile",
     "set_backlight_timeout", "set_battery_calibration", "set_battery_limiter",
     "set_boot_animation_sound", "set_fan_speed", "set_lcd_override",
     "set_usb_charging", "set_per_zone_mode", "set_four_zone_mode",
     "get_supported_features", "get_version", "force_nitro_model",
     "force_predator_model", "force_enable_all", "get_modprobe_parameter",
     "set_modprobe_parameter_nitro", "set_modprobe_parameter_predator",
     "set_modprobe_parameter_enable_all", "remove_modprobe_parameter",
     "restart_daemon", "restart_drivers_and_daemon",
     \* no such command, and a request without "command"
     "set_fan_curve", ""}

\* "params" values that are no JSON object
NonDictParams == {None, JList(<<>>), JStr("x"), JInt(1)}

FanValues ==
    {JInt(-1), JInt(0), JInt(79), JInt(80), JInt(100), JInt(101), JStr("50")}

ParamsFor(command) ==
    CASE command = "set_thermal_profile" ->
           {JDict([profile |-> JStr(p)]) : p \in ProfileInputs}
           \cup {EmptyDict, JDict([profile |-> JInt(3)])} \cup NonDictParams
      [] command = "set_fan_speed" ->
           {JDict([cpu |-> c, gpu |-> g]) : c \in FanValues, g \in FanValues}
           \cup {EmptyDict, JDict([cpu |-> JInt(90)]), JDict([gpu |-> JInt(101)])}
           \cup NonDictParams
      [] command \in {"set_backlight_timeout", "set_battery_calibration",
                      "set_battery_limiter", "set_boot_animation_sound",
                      "set_lcd_override"} ->
           {JDict([enabled |-> JBool(b)]) : b \in BOOLEAN}
           \cup {EmptyDict} \cup NonDictParams
      [] command = "set_usb_charging" ->
           {JDict([level |-> JInt(n)]) : n \in {0, 10, 20, 30}}
           \cup {EmptyDict} \cup NonDictParams
      [] command = "set_per_zone_mode" ->
           {JDict([zone1 |-> JStr("ff0000"), brightness |-> JInt(50)]), EmptyDict}
           \cup NonDictParams
      [] command = "set_four_zone_mode" ->
           {JDict([mode |-> JInt(3), speed |-> JInt(5), red |-> JInt(255)]), EmptyDict}
           \cup NonDictParams
      [] command = "get_all_settings" -> {EmptyDict, None}
      [] OTHER -> {EmptyDict, JDict([parameter |-> JStr("x")])} \cup NonDictParams

\* the platform answers that the handling of a command can depend on
EnvsFor(command) ==
    CASE command = "set_fan_speed" ->
           {e \in PlatformEnvs : e.query_ok /\ e.sc = "ok"}
      [] command = "set_thermal_profile" ->
           {[DefaultEnv EXCEPT !.powercfg_ok = b] : b \in BOOLEAN}
      [] command \in {"get_thermal_profile", "get_all_settings"} ->
           {[DefaultEnv EXCEPT !.query_ok = b] : b \in BOOLEAN}
      [] command \in {"restart_daemon", "restart_drivers_and_daemon"} ->
           {[DefaultEnv EXCEPT !.sc = x] : x \in {"ok", "start_fails", "missing"}}
      [] OTHER -> {DefaultEnv}

SensorsFor(command) ==
    IF command = "get_all_settings"
      THEN {se \in SensorEnvs : se.driver = "path"}
           \cup {[DefaultSensors EXCEPT !.driver = d] :
                    d \in {"raises", "none", "nopath", "path"}}
      ELSE {DefaultSensors}

NoEnv == [platform |-> DefaultEnv, sensors |-> DefaultSensors]

CmdIdle ==
    /\ cmd_state = "idle"
    /\ last_cmd = ""
    /\ last_params = None
    /\ last_env = NoEnv
    /\ last_resp = None
    /\ last_calls = <<>>

\* the connections the pipe server can accept, and the frames the clients
\* send in all
MaxConn == 2
MaxReq == 2
Conns == 1..MaxConn

\* the two start_monitoring() calls: chain 1 is started by setup(), chain 2
\* by run()
Chains == {1, 2}

\* the daemon before main() has built it: no thread, no connection, no timer
DaemonOff ==
    /\ power_monitor = FALSE
    /\ main_pc = "off"
    /\ daemon_running = FALSE
    /\ server_created = FALSE
    /\ server_running = FALSE
    /\ sig_pending = FALSE
    /\ signalled = FALSE
    /\ client = [c \in Conns |-> "none"]
    /\ handle = [c \in Conns |-> "none"]
    /\ wpc = [c \in Conns |-> "none"]
    /\ inbox = [c \in Conns |-> <<>>]
    /\ nsent = 0
    /\ reqs = [c \in Conns |-> <<>>]
    /\ wresp = [c \in Conns |-> None]
    /\ attempts = [c \in Conns |-> <<>>]
    /\ current_source = None
    /\ timer = 0
    /\ ppc = [k \in Chains |-> "idle"]
    /\ plugged = [k \in Chains |-> FALSE]
    /\ target = [k \in Chains |-> ""]
    /\ handler_profile = [k \in Chains |-> ""]
    /\ monitor_stopped = FALSE
    /\ switch_count = 0

CmdInit ==
    /\ \E inv \in Inventories : ManagerInit(inv)
    /\ active_scheme \in Schemes
    /\ on_ac = TRUE
    /\ CmdIdle
    /\ DaemonOff

\* process_command(command, params) is called and returns
CmdCall ==
    /\ cmd_state = "idle"
    /\ \E command \in Commands :
         \E params \in ParamsFor(command), env \in EnvsFor(command),
            se \in SensorsFor(command) :
           LET r == ProcessCommand(wmi_ok, laptop_type, has_four_zone_kb,
                                   available_features, active_scheme,
                                   command, params, env, se)
           IN  /\ cmd_state' = "returned"
               /\ last_cmd' = command
               /\ last_params' = params
               /\ last_env' = [platform |-> env, sensors |-> se]
               /\ last_resp' = r.resp
               /\ last_calls' = r.calls
               /\ active_scheme' = r.scheme
               /\ LET m == ManagerAfter(command, laptop_type, has_four_zone_kb,
                                        available_features)
                  IN  /\ laptop_type' = m.laptop_type
                      /\ has_four_zone_kb' = m.has_four_zone_kb
                      /\ available_features' = m.available_features
    /\ UNCHANGED <<wmi_ok, on_ac, mainVars, connVars, pollVars>>

\* the record of the call is dropped; the platform keeps its state
CmdForget ==
    /\ cmd_state = "returned"
    /\ cmd_state' = "idle"
    /\ last_cmd' = ""
    /\ last_params' = None
    /\ last_env' = NoEnv
    /\ last_resp' = None
    /\ last_calls' = <<>>
    /\ UNCHANGED <<mgrVars, platVars, mainVars, connVars, pollVars>>

vars == <<mgrVars, platVars, cmdVars, mainVars, connVars, pollVars>>

CmdNext == CmdCall \/ CmdForget

CmdSpec == CmdInit /\ [][CmdNext]_vars

-----------------------------------------------------------------------------
(* Properties of process_command and the manager (under CmdSpec)           *)

\* the set_F command of feature F
SetCommand(feature) == "set_" \o feature

\* C1: for every settable feature F that is not in available_features, the
\* set_F command returns success = false with the "not supported on this
\* device" error of F, whatever the parameters are, and no platform call is
\* made while it is handled (the active scheme stays as it was).
C1_UnavailableSetterRefused ==
    \A f \in Features :
        (cmd_state = "returned" /\ last_cmd = SetCommand(f) /\ f \notin available_features)
        => /\ last_resp.success = FALSE
           /\ last_resp.error = JStr(FeatureLabel(f) \o " is not supported on this device")
           /\ "data" \notin DOMAIN last_resp
           /\ last_calls = <<>>

\* C1 witness: set_fan_speed with valid speeds on a device without fan_speed,
\* on a platform whose fan controller would have taken the call
C1_Witness ==
    /\ cmd_state = "returned"
    /\ last_cmd = "set_fan_speed"
    /\ "fan_speed" \notin available_features
    /\ last_params = JDict([cpu |-> JInt(80), gpu |-> JInt(80)])
    /\ last_env.platform.controller = "ok"
    /\ last_resp.success = FALSE

\* the spellings that are, case-insensitively, one of the five profile names
RecognisedSpellings ==
    {"low-power", "quiet", "balanced", "balanced-performance", "performance",
     "LOW-POWER", "Quiet", "BALANCED", "Balanced-Performance", "Performance"}

\* the profile string a set_thermal_profile request carries
RequestedProfile == DictGet(last_params, "profile", JStr(""))

\* C2: with thermal_profile available, set_thermal_profile(p) for a string p
\* that is not (case-insensitively) one of the five profile names requests
\* the activation of the scheme "balanced" maps to, and of no other scheme.
C2_UnknownProfileFallsBackToBalanced ==
    (/\ cmd_state = "returned"
     /\ last_cmd = "set_thermal_profile"
     /\ "thermal_profile" \in available_features
     /\ IsDict(last_params)
     /\ IsStr(RequestedProfile)
     /\ RequestedProfile.str \notin RecognisedSpellings)
    => /\ last_calls = <<PowercfgSetActive(GUID_BALANCED)>>
       /\ last_env.platform.powercfg_ok => active_scheme = GUID_BALANCED

C2_Witness ==
    /\ cmd_state = "returned"
    /\ last_cmd = "set_thermal_profile"
    /\ last_params = JDict([profile |-> JStr("turbo")])
    /\ last_resp.success = TRUE
    /\ active_scheme = GUID_BALANCED

\* the fan speeds a set_fan_speed request carries
RequestedCpu == DictGet(last_params, "cpu", JInt(0))
RequestedGpu == DictGet(last_params, "gpu", JInt(0))
OutOfRange(v) == "int" \in DOMAIN v /\ (v.int < 0 \/ v.int > 100)

\* C3: set_fan_speed(cpu, gpu) with cpu or gpu outside 0..100 returns failure
\* and attempts no platform call: no vendor control method is tried and the
\* thermal-profile fallback is not applied.
C3_OutOfRangeFanSpeedRefused ==
    (/\ cmd_state = "returned"
     /\ last_cmd = "set_fan_speed"
     /\ IsDict(last_params)
     /\ OutOfRange(RequestedCpu) \/ OutOfRange(RequestedGpu))
    => /\ last_resp.success = FALSE
       /\ last_calls = <<>>

\* C3 witness: fan_speed available, the controller would take the call, and
\* the fallback case (both >= 80) would apply but for the range
C3_Witness ==
    /\ cmd_state = "returned"
    /\ last_cmd = "set_fan_speed"
    /\ "fan_speed" \in available_features
    /\ "thermal_profile" \in available_features
    /\ last_params = JDict([cpu |-> JInt(101), gpu |-> JInt(80)])
    /\ last_env.platform.controller = "ok"
    /\ last_resp.success = FALSE
    /\ last_calls = <<>>

-----------------------------------------------------------------------------
(* DaemonServer.handle_client : framing, decoding, dispatch                *)

\* A frame as the worker's two ReadFile calls see it: how many prefix bytes
\* arrive ("full": 4, "short": fewer), the payload bytes the second call
\* returns, and how many of the bytes the prefix announced are missing from
\* them.
Frame(prefix, bytes) == [prefix |-> prefix, payload |-> bytes, missing |-> 0]

\* a frame whose payload message is n bytes shorter than its prefix says:
\* ReadFile(pipe_handle, msg_length) returns result 0 and the bytes there are
CutFrame(bytes, n) == [prefix |-> "full", payload |-> bytes, missing |-> n]

\* payloads, written as the bytes the client sends
PGetVersion == "{\"command\": \"get_version\"}"
PUnknown == "{\"command\": \"set_fan_curve\"}"
PBadFan == "{\"command\": \"set_fan_speed\", \"params\": {\"cpu\": \"50\", \"gpu\": 50}}"
PNotJson == "not json"
PList == "[1]"
\* two bytes that are not UTF-8
PBadUtf8 == "\\xff\\xfe"

Payloads == {PGetVersion, PUnknown, PBadFan, PNotJson, PList, PBadUtf8}

\* the first 20 of the 26 bytes of PGetVersion
PCutVersion == "{\"command\": \"get_ver"

ClientFrames == {Frame("full", b) : b \in Payloads} \cup {Frame("short", "")}

\* data.decode('utf-8')
Utf8Decode(bytes) ==
    IF bytes = PBadUtf8
      THEN [ok |-> FALSE, text |-> "",
            raised |-> "'utf-8' codec can't decode byte 0xff in position 0: invalid start byte"]
      ELSE [ok |-> TRUE, text |-> bytes, raised |-> ""]

\* json.loads(text)
JsonLoads(text) ==
    CASE text = PGetVersion ->
           [ok |-> TRUE, value |-> JDict([command |-> JStr("get_version")])]
      [] text = PUnknown ->
           [ok |-> TRUE, value |-> JDict([command |-> JStr("set_fan_curve")])]
      [] text = PBadFan ->
           [ok |-> TRUE,
            value |-> JDict([command |-> JStr("set_fan_speed"),
                             params |-> JDict([cpu |-> JStr("50"), gpu |-> JInt(50)])])]
      [] text = PList -> [ok |-> TRUE, value |-> JList(<<JInt(1)>>)]
      [] OTHER -> [ok |-> FALSE, value |-> None]

InvalidJsonResponse == ErrorResponse("Invalid JSON format")

\* ExcRoute with the JSONDecodeError clause leaving the loop like a pipe error
ExcRoute_JsonBreaks(exc, at) ==
    CASE at \in {"read", "write"} /\ exc \in {"pipe", "json"} -> "finally"
      [] at \in {"read", "write"} -> "generic_write"
      [] at = "json_write" -> "finally"
      [] OTHER -> "loop"

\* ExcRoute with a last clause that leaves the loop like the pipe-error clause
ExcRoute_OtherBreaks(exc, at) ==
    CASE at \in {"read", "write"} /\ exc = "json" -> "json_write"
      [] at \in {"read", "write"} -> "finally"
      [] at = "json_write" -> "finally"
      [] OTHER -> "loop"

\* ExcRoute with a last clause that only logs and goes on with the loop
ExcRoute_OtherSkips(exc, at) ==
    CASE at \in {"read", "write"} /\ exc = "pipe" -> "finally"
      [] at \in {"read", "write"} /\ exc = "json" -> "json_write"
      [] at = "json_write" -> "finally"
      [] OTHER -> "loop"

\* Where control goes when an exception of class exc ("pipe": pywintypes.error,
\* "json": json.JSONDecodeError, "other": any other Exception) is raised at
\* position at of the worker's loop.  "read" and "write" are inside the inner
\* try; "json_write" and "generic_write" are the WriteFile calls of the two
\* except clauses.
ExcRoute(exc, at) ==
    CASE at \in {"read", "write"} /\ exc = "pipe" -> "finally"
      [] at \in {"read", "write"} /\ exc = "json" -> "json_write"
      [] at \in {"read", "write"} -> "generic_write"
      \* raised inside the JSONDecodeError clause: caught by the outer except
      [] at = "json_write" -> "finally"
      \* raised inside the last clause: swallowed by its bare except
      [] OTHER -> "loop"

\* What the inner try does with a payload that was read completely: the
\* response to write, the position that writes it, and the effect of the
\* dispatch on the platform.
HandleRequest(bytes, wmiconn, ltype, kb, features, scheme) ==
    LET d == Utf8Decode(bytes)
        j == JsonLoads(d.text)
    IN  IF ~d.ok
          THEN [at |-> ExcRoute("other", "read"), resp |-> ErrorResponse(d.raised),
                scheme |-> scheme, manager |-> ManagerState(ltype, kb, features)]
        ELSE IF ~j.ok
          THEN [at |-> ExcRoute("json", "read"), resp |-> InvalidJsonResponse,
                scheme |-> scheme, manager |-> ManagerState(ltype, kb, features)]
        ELSE IF ~IsDict(j.value)
          THEN [at |-> ExcRoute("other", "read"),
                resp |-> ErrorResponse(NoAttributeMsg(j.value, "get")),
                scheme |-> scheme, manager |-> ManagerState(ltype, kb, features)]
        ELSE LET command == DictGet(j.value, "command", JStr(""))
                 params == DictGet(j.value, "params", EmptyDict)
                 r == ProcessCommand(wmiconn, ltype, kb, features, scheme,
                                     command.str, params, DefaultEnv, DefaultSensors)
             IN  [at |-> "write", resp |-> r.resp, scheme |-> r.scheme,
                  manager |-> ManagerAfter(command.str, ltype, kb, features)]

\* one WriteFile call on a connection: the request it answers (its index
\* among the frames read on the connection), the response, whether the
\* call succeeded
Attempt(req, resp, ok) == [req |-> req, resp |-> resp, ok |-> ok]

\* while self.running:
WLoop(c) ==
    /\ wpc[c] = "loop"
    /\ wpc' = [wpc EXCEPT ![c] = IF server_running THEN "read" ELSE "finally"]
    /\ UNCHANGED <<mgrVars, platVars, cmdVars, mainVars, pollVars,
                   client, handle, inbox, nsent, reqs, wresp, attempts>>

\* the prefix test without the length check
PrefixComplete_LengthUnchecked(f) == f.prefix \in {"full", "short"}

\* if result != 0 or len(length_data) < 4: break
PrefixComplete(f) == f.prefix = "full"

\* the two ReadFile calls return a frame; a short prefix leaves the loop,
\* a complete frame is decoded and dispatched
WReadFrame(c) ==
    /\ wpc[c] = "read"
    /\ handle[c] = "open"
    /\ inbox[c] # <<>>
    /\ LET f == Head(inbox[c])
           h == HandleRequest(f.payload, wmi_ok, laptop_type, has_four_zone_kb,
                              available_features, active_scheme)
       IN  /\ inbox' = [inbox EXCEPT ![c] = Tail(@)]
           /\ reqs' = [reqs EXCEPT ![c] = Append(@, f)]
           /\ IF ~PrefixComplete(f)
                THEN /\ wpc' = [wpc EXCEPT ![c] = "finally"]
                     /\ UNCHANGED <<wresp, active_scheme, laptop_type,
                                    has_four_zone_kb, available_features>>
                ELSE /\ wpc' = [wpc EXCEPT ![c] = h.at]
                     /\ wresp' = [wresp EXCEPT ![c] = h.resp]
                     /\ active_scheme' = h.scheme
                     /\ laptop_type' = h.manager.laptop_type
                     /\ has_four_zone_kb' = h.manager.has_four_zone_kb
                     /\ available_features' = h.manager.available_features
    /\ UNCHANGED <<wmi_ok, on_ac, cmdVars, mainVars, pollVars,
                   client, handle, nsent, attempts>>

\* ReadFile raises pywintypes.error: the handle was closed by stop(), or the
\* client closed its end and nothing is left to read
WReadBroken(c) ==
    /\ wpc[c] = "read"
    /\ handle[c] = "closed" \/ (inbox[c] = <<>> /\ client[c] = "closed")
    /\ wpc' = [wpc EXCEPT ![c] = ExcRoute("pipe", "read")]
    /\ UNCHANGED <<mgrVars, platVars, cmdVars, mainVars, pollVars,
                   client, handle, inbox, nsent, reqs, wresp, attempts>>

\* one of the three WriteFile calls; it fails when either end is closed
WWrite(c) ==
    /\ wpc[c] \in {"write", "json_write", "generic_write"}
    /\ LET ok == client[c] = "open" /\ handle[c] = "open"
       IN  /\ attempts' = [attempts EXCEPT ![c] = Append(@, Attempt(Len(reqs[c]), wresp[c], ok))]
           /\ wpc' = [wpc EXCEPT ![c] = IF ok THEN "loop" ELSE ExcRoute("pipe", wpc[c])]
    /\ wresp' = [wresp EXCEPT ![c] = None]
    /\ UNCHANGED <<mgrVars, platVars, cmdVars, mainVars, pollVars,
                   client, handle, inbox, nsent, reqs>>

\* finally: CloseHandle(pipe_handle)
WFinally(c) ==
    /\ wpc[c] = "finally"
    /\ wpc' = [wpc EXCEPT ![c] = "exited"]
    /\ handle' = [handle EXCEPT ![c] = "closed"]
    /\ UNCHANGED <<mgrVars, platVars, cmdVars, mainVars, pollVars,
                   client, inbox, nsent, reqs, wresp, attempts>>

\* the client writes one frame of the set frames
ClientSend(c, frames) ==
    /\ client[c] = "open"
    /\ handle[c] = "open"
    /\ nsent < MaxReq
    /\ \E f \in frames : inbox' = [inbox EXCEPT ![c] = Append(@, f)]
    /\ nsent' = nsent + 1
    /\ UNCHANGED <<mgrVars, platVars, cmdVars, mainVars, pollVars,
                   client, handle, wpc, reqs, wresp, attempts>>

\* the client closes its end of the pipe
ClientClose(c) ==
    /\ client[c] = "open"
    /\ client' = [client EXCEPT ![c] = "closed"]
    /\ UNCHANGED <<mgrVars, platVars, cmdVars, mainVars, pollVars,
                   handle, wpc, inbox, nsent, reqs, wresp, attempts>>

-----------------------------------------------------------------------------
(* PowerSourceDetector                                                     *)

\* _is_ac_connected answering True (no battery found, so AC) when the query
\* raises
_is_ac_connected_ErrorIsAc(ac, query_works) == IF query_works THEN ac ELSE TRUE

\* _is_ac_connected(): the battery status when the query works, False when
\* it raises
_is_ac_connected(ac, query_works) == IF query_works THEN ac ELSE FALSE

\* _handle_power_change with the test of is_plugged_in inverted
_handle_power_change_OnAc(features, scheme, is_plugged_in, query_ok) ==
    IF "thermal_profile" \notin features THEN ""
    ELSE LET current_profile == get_thermal_profile(features, scheme, query_ok)
             choices == get_thermal_profile_choices(features)
             available_profiles == {choices[i] : i \in DOMAIN choices}
         IN  IF ~is_plugged_in THEN ""
             ELSE IF current_profile \in {"balanced", "quiet", "low-power"} THEN ""
             ELSE IF "balanced" \in available_profiles THEN "balanced"
             ELSE IF "quiet" \in available_profiles THEN "quiet"
             ELSE IF "low-power" \in available_profiles THEN "low-power"
             ELSE ""

\* _handle_power_change(is_plugged_in): the profile it passes to
\* set_thermal_profile, "" when it calls nothing
_handle_power_change(features, scheme, is_plugged_in, query_ok) ==
    IF "thermal_profile" \notin features THEN ""
    ELSE LET current_profile == get_thermal_profile(features, scheme, query_ok)
             choices == get_thermal_profile_choices(features)
             available_profiles == {choices[i] : i \in DOMAIN choices}
         IN  IF is_plugged_in THEN ""
             ELSE IF current_profile \in {"balanced", "quiet", "low-power"} THEN ""
             ELSE IF "balanced" \in available_profiles THEN "balanced"
             ELSE IF "quiet" \in available_profiles THEN "quiet"
             ELSE IF "low-power" \in available_profiles THEN "low-power"
             ELSE ""

\* a Timer expires and its thread calls check_power_source, which begins
\* with is_plugged_in = self._is_ac_connected()
PFire(k) ==
    /\ ppc[k] = "pending"
    /\ \E query_works \in BOOLEAN :
         plugged' = [plugged EXCEPT ![k] = _is_ac_connected(on_ac, query_works)]
    /\ ppc' = [ppc EXCEPT ![k] = "compare"]
    /\ UNCHANGED <<mgrVars, platVars, cmdVars, mainVars, connVars,
                   current_source, timer, target, handler_profile, monitor_stopped,
                   switch_count>>

\* PCompare comparing is_plugged_in with bool(self.current_source), which
\* takes the initial None for Battery
PCompare_NoneIsBattery(k) ==
    /\ ppc[k] = "compare"
    /\ ppc' = [ppc EXCEPT ![k] = IF plugged[k] # (current_source = JBool(TRUE))
                                   THEN "assign" ELSE "schedule"]
    /\ UNCHANGED <<mgrVars, platVars, cmdVars, mainVars, connVars,
                   current_source, timer, plugged, target, handler_profile,
                   monitor_stopped, switch_count>>

\* if is_plugged_in != self.current_source:
PCompare(k) ==
    /\ ppc[k] = "compare"
    /\ ppc' = [ppc EXCEPT ![k] = IF JBool(plugged[k]) # current_source
                                   THEN "assign" ELSE "schedule"]
    /\ UNCHANGED <<mgrVars, platVars, cmdVars, mainVars, connVars,
                   current_source, timer, plugged, target, handler_profile, monitor_stopped,
                   switch_count>>

\* PAssign entering the handler while current_source keeps its old value
PAssign_KeepsOld(k) ==
    /\ ppc[k] = "assign"
    /\ current_source' = current_source
    /\ ppc' = [ppc EXCEPT ![k] = "handle"]
    /\ switch_count' = IF plugged[k] THEN 0 ELSE switch_count
    /\ UNCHANGED <<mgrVars, platVars, cmdVars, mainVars, connVars,
                   timer, plugged, target, handler_profile, monitor_stopped>>

\* self.current_source = is_plugged_in
PAssign(k) ==
    /\ ppc[k] = "assign"
    /\ current_source' = JBool(plugged[k])
    /\ ppc' = [ppc EXCEPT ![k] = "handle"]
    /\ switch_count' = IF plugged[k] THEN 0 ELSE switch_count
    /\ UNCHANGED <<mgrVars, platVars, cmdVars, mainVars, connVars,
                   timer, plugged, target, handler_profile, monitor_stopped>>

\* _handle_power_change up to its decision: the feature test, the two
\* manager queries, the choice of the profile
PHandle(k) ==
    /\ ppc[k] = "handle"
    /\ \E query_ok \in BOOLEAN :
         LET t == _handle_power_change(available_features, active_scheme,
                                       plugged[k], query_ok)
         IN  /\ target' = [target EXCEPT ![k] = t]
             /\ handler_profile' =
                  [handler_profile EXCEPT
                     ![k] = get_thermal_profile(available_features, active_scheme, query_ok)]
             /\ ppc' = [ppc EXCEPT ![k] = IF t = "" THEN "schedule" ELSE "set"]
    /\ UNCHANGED <<mgrVars, platVars, cmdVars, mainVars, connVars,
                   current_source, timer, plugged, monitor_stopped,
                   switch_count>>

\* the saturation value of switch_count
SwitchCap == 2

\* self.manager.set_thermal_profile(target)
PSet(k) ==
    /\ ppc[k] = "set"
    /\ \E powercfg_ok \in BOOLEAN :
         active_scheme' = set_thermal_profile(available_features, active_scheme,
                                              JStr(target[k]), powercfg_ok).scheme
    /\ switch_count' = IF switch_count < SwitchCap
                         THEN switch_count + 1 ELSE switch_count
    /\ target' = [target EXCEPT ![k] = ""]
    /\ ppc' = [ppc EXCEPT ![k] = "schedule"]
    /\ UNCHANGED <<mgrVars, on_ac, cmdVars, mainVars, connVars,
                   current_source, timer, plugged, handler_profile,
                   monitor_stopped>>

\* self.timer = Timer(...); self.timer.start().  When the check was called
\* by start_monitoring, start_monitoring returns to setup() or run().  The
\* locals of the handler are gone by now.
PSchedule(k) ==
    /\ ppc[k] = "schedule"
    /\ timer' = k
    /\ handler_profile' = [handler_profile EXCEPT ![k] = ""]
    /\ ppc' = [ppc EXCEPT ![k] = "pending"]
    /\ main_pc' = IF k = 1 /\ main_pc = "setup_monitor" THEN "run"
                  ELSE IF k = 2 /\ main_pc = "run_monitor" THEN "server_start"
                  ELSE main_pc
    /\ UNCHANGED <<mgrVars, platVars, cmdVars, connVars,
                   power_monitor, daemon_running, server_created,
                   server_running, sig_pending, signalled,
                   current_source, plugged, target, monitor_stopped,
                   switch_count>>

\* the battery is plugged in or unplugged
PowerChange ==
    /\ main_pc \notin {"off", "done"}
    /\ on_ac' = ~on_ac
    /\ UNCHANGED <<mgrVars, active_scheme, cmdVars, mainVars, connVars, pollVars>>

\* stop_monitoring(): if self.timer: self.timer.cancel()
\* (cancel() has an effect only while that Timer is still waiting)
stop_monitoring(pcs, t) ==
    IF t # 0 /\ pcs[t] = "pending" THEN [pcs EXCEPT ![t] = "cancelled"] ELSE pcs

-----------------------------------------------------------------------------
(* DAMXDaemon.setup, run, cleanup, signal_handler; DaemonServer.start, stop *)

\* setup() after DAMXManager(): the detector is built and start_monitoring()
\* runs the first check in the main thread
Setup ==
    /\ main_pc = "setup"
    /\ IF power_monitor
         THEN /\ main_pc' = "setup_monitor"
              /\ \E query_works \in BOOLEAN :
                   plugged' = [plugged EXCEPT ![1] = _is_ac_connected(on_ac, query_works)]
              /\ ppc' = [ppc EXCEPT ![1] = "compare"]
         ELSE /\ main_pc' = "run"
              /\ UNCHANGED <<plugged, ppc>>
    /\ UNCHANGED <<mgrVars, platVars, cmdVars, connVars,
                   power_monitor, daemon_running, server_created,
                   server_running, sig_pending, signalled,
                   current_source, timer, target, handler_profile, monitor_stopped,
                   switch_count>>

\* run(): signal.signal(SIGINT, self.signal_handler); self.running = True
RunInstall ==
    /\ main_pc = "run"
    /\ main_pc' = "create_server"
    /\ daemon_running' = TRUE
    /\ UNCHANGED <<mgrVars, platVars, cmdVars, connVars, pollVars,
                   power_monitor, server_created, server_running, sig_pending,
                   signalled>>

\* self.server = DaemonServer(self.manager); then the second
\* start_monitoring() when there is a power monitor
CreateServer ==
    /\ main_pc = "create_server"
    /\ server_created' = TRUE
    /\ IF power_monitor
         THEN /\ main_pc' = "run_monitor"
              /\ \E query_works \in BOOLEAN :
                   plugged' = [plugged EXCEPT ![2] = _is_ac_connected(on_ac, query_works)]
              /\ ppc' = [ppc EXCEPT ![2] = "compare"]
         ELSE /\ main_pc' = "server_start"
              /\ UNCHANGED <<plugged, ppc>>
    /\ UNCHANGED <<mgrVars, platVars, cmdVars, connVars,
                   power_monitor, daemon_running, server_running, sig_pending,
                   signalled, current_source, timer, target, handler_profile,
                   monitor_stopped, switch_count>>

\* start(): self.running = True
ServerStart ==
    /\ main_pc = "server_start"
    /\ server_running' = TRUE
    /\ main_pc' = "loop_test"
    /\ UNCHANGED <<mgrVars, platVars, cmdVars, connVars, pollVars,
                   power_monitor, daemon_running, server_created, sig_pending,
                   signalled>>

\* while self.running:
LoopTest ==
    /\ main_pc = "loop_test"
    /\ main_pc' = IF server_running THEN "create_pipe" ELSE "cleanup"
    /\ UNCHANGED <<mgrVars, platVars, cmdVars, connVars, pollVars,
                   power_monitor, daemon_running, server_created,
                   server_running, sig_pending, signalled>>

\* CreateNamedPipe(...), then the call of ConnectNamedPipe, which blocks
CreatePipe ==
    /\ main_pc = "create_pipe"
    /\ main_pc' = "accept"
    /\ UNCHANGED <<mgrVars, platVars, cmdVars, connVars, pollVars,
                   power_monitor, daemon_running, server_created,
                   server_running, sig_pending, signalled>>

\* a client opens the pipe; ConnectNamedPipe returns
ClientConnect(c) ==
    /\ main_pc = "accept"
    /\ client[c] = "none"
    /\ \A d \in Conns : d < c => client[d] # "none"
    /\ client' = [client EXCEPT ![c] = "open"]
    /\ handle' = [handle EXCEPT ![c] = "open"]
    /\ main_pc' = "spawn"
    /\ UNCHANGED <<mgrVars, platVars, cmdVars, pollVars,
                   power_monitor, daemon_running, server_created,
                   server_running, sig_pending, signalled,
                   wpc, inbox, nsent, reqs, wresp, attempts>>

\* Spawn with handle_client called in the accept loop's own thread: the loop
\* goes on only when the call returns
Spawn_Inline ==
    /\ main_pc = "spawn"
    /\ \E c \in Conns :
         /\ handle[c] # "none"
         /\ wpc[c] = "none"
         /\ wpc' = [wpc EXCEPT ![c] = "loop"]
    /\ main_pc' = "serving"
    /\ UNCHANGED <<mgrVars, platVars, cmdVars, pollVars,
                   power_monitor, daemon_running, server_created,
                   server_running, sig_pending, signalled,
                   client, handle, inbox, nsent, reqs, wresp, attempts>>

\* client_thread.start(); self.clients.append(...)
Spawn ==
    /\ main_pc = "spawn"
    /\ \E c \in Conns :
         /\ handle[c] # "none"
         /\ wpc[c] = "none"
         /\ wpc' = [wpc EXCEPT ![c] = "loop"]
    /\ main_pc' = "loop_test"
    /\ UNCHANGED <<mgrVars, platVars, cmdVars, pollVars,
                   power_monitor, daemon_running, server_created,
                   server_running, sig_pending, signalled,
                   client, handle, inbox, nsent, reqs, wresp, attempts>>

\* cleanup(): self.server.stop() sets running = False and closes the handle
\* of every entry of self.clients
CleanupServer ==
    /\ main_pc = "cleanup"
    /\ server_running' = FALSE
    /\ handle' = [c \in Conns |-> IF wpc[c] # "none" THEN "closed" ELSE handle[c]]
    /\ main_pc' = "cleanup_monitor"
    /\ UNCHANGED <<mgrVars, platVars, cmdVars, pollVars,
                   power_monitor, daemon_running, server_created, sig_pending,
                   signalled, client, wpc, inbox, nsent, reqs, wresp, attempts>>

\* cleanup(): if self.power_monitor: self.power_monitor.stop_monitoring()
CleanupMonitor ==
    /\ main_pc = "cleanup_monitor"
    /\ main_pc' = "done"
    /\ IF power_monitor
         THEN /\ ppc' = stop_monitoring(ppc, timer)
              /\ monitor_stopped' = TRUE
         ELSE UNCHANGED <<ppc, monitor_stopped>>
    /\ UNCHANGED <<mgrVars, platVars, cmdVars, connVars,
                   power_monitor, daemon_running, server_created,
                   server_running, sig_pending, signalled,
                   current_source, timer, plugged, target, handler_profile, switch_count>>

\* SIGINT is raised, once (after run() installed the handler, while the
\* process lives)
SigInt ==
    /\ main_pc \notin {"off", "setup", "setup_monitor", "run", "done"}
    /\ ~signalled
    /\ sig_pending' = TRUE
    /\ signalled' = TRUE
    /\ UNCHANGED <<mgrVars, platVars, cmdVars, connVars, pollVars,
                   power_monitor, main_pc, daemon_running, server_created,
                   server_running>>

\* signal_handler runs in the main thread, between two of its bytecodes:
\* not while the main thread is blocked inside ConnectNamedPipe
SignalHandler ==
    /\ sig_pending
    /\ main_pc \notin {"accept", "done"}
    /\ sig_pending' = FALSE
    /\ daemon_running' = FALSE
    /\ server_running' = IF server_created THEN FALSE ELSE server_running
    /\ UNCHANGED <<mgrVars, platVars, cmdVars, connVars, pollVars,
                   power_monitor, main_pc, server_created, signalled>>

-----------------------------------------------------------------------------
(* The daemon as a whole                                                   *)

\* the device the daemon is started on: a Predator laptop whose WMI
\* inventory answers
DaemonInventories ==
    {[wmi |-> TRUE, system |-> "acer_predator", battery |-> "present", keyboard |-> "acer"]}

\* main() has called DAMXDaemon() and setup() has built the manager; pm tells
\* whether the import of PowerSourceDetection succeeded
DaemonStart(invs, pm, schemes, sources) ==
    /\ \E inv \in invs : ManagerInit(inv)
    /\ active_scheme \in schemes
    /\ on_ac \in sources
    /\ CmdIdle
    /\ power_monitor = pm
    /\ main_pc = "setup"
    /\ daemon_running = FALSE
    /\ server_created = FALSE
    /\ server_running = FALSE
    /\ sig_pending = FALSE
    /\ signalled = FALSE
    /\ client = [c \in Conns |-> "none"]
    /\ handle = [c \in Conns |-> "none"]
    /\ wpc = [c \in Conns |-> "none"]
    /\ inbox = [c \in Conns |-> <<>>]
    /\ nsent = 0
    /\ reqs = [c \in Conns |-> <<>>]
    /\ wresp = [c \in Conns |-> None]
    /\ attempts = [c \in Conns |-> <<>>]
    /\ current_source = None
    /\ timer = 0
    /\ ppc = [k \in Chains |-> "idle"]
    /\ plugged = [k \in Chains |-> FALSE]
    /\ target = [k \in Chains |-> ""]
    /\ handler_profile = [k \in Chains |-> ""]
    /\ monitor_stopped = FALSE
    /\ switch_count = 0

DaemonInit(pm, schemes, sources) ==
    DaemonStart(DaemonInventories, pm, schemes, sources)

\* a step of the main thread
MainStep ==
    \/ Setup
    \/ RunInstall
    \/ CreateServer
    \/ ServerStart
    \/ LoopTest
    \/ CreatePipe
    \/ Spawn
    \/ CleanupServer
    \/ CleanupMonitor

\* a step of the worker thread of connection c
WorkerStep(c) ==
    \/ WLoop(c)
    \/ WReadFrame(c)
    \/ WReadBroken(c)
    \/ WWrite(c)
    \/ WFinally(c)

\* a step of a check_power_source run of chain k
PollStep(k) ==
    \/ PFire(k)
    \/ PCompare(k)
    \/ PAssign(k)
    \/ PHandle(k)
    \/ PSet(k)
    \/ PSchedule(k)

\* The daemon without a power monitor, with clients that send frames.
IpcInit == DaemonInit(FALSE, {GUID_BALANCED}, {TRUE})

IpcNext ==
    \/ MainStep
    \/ SigInt
    \/ SignalHandler
    \/ \E c \in Conns :
         \/ ClientConnect(c)
         \/ ClientSend(c, ClientFrames)
         \/ ClientClose(c)
         \/ WorkerStep(c)

IpcSpec == IpcInit /\ [][IpcNext]_vars

\* The same daemon with clients that send get_version requests only, and
\* with its threads scheduled fairly: the main thread and every worker that
\* can take a step eventually take one; the clients are under no obligation.
PingFrames == {Frame("full", PGetVersion)}

FairIpcNext ==
    \/ MainStep
    \/ SigInt
    \/ SignalHandler
    \/ \E c \in Conns :
         \/ ClientConnect(c)
         \/ ClientSend(c, PingFrames)
         \/ ClientClose(c)
         \/ WorkerStep(c)

FairIpcSpec ==
    /\ IpcInit
    /\ [][FairIpcNext]_vars
    /\ WF_vars(MainStep)
    /\ WF_vars(SignalHandler)
    /\ \A c \in Conns : WF_vars(WorkerStep(c))

\* The same daemon with clients whose payload may be shorter than the
\* length they announced: a get_version request that stops after 20 bytes,
\* and a whole get_version request announced as 30 bytes.
CutFrames == {CutFrame(PCutVersion, 6), CutFrame(PGetVersion, 4)}

FramingNext ==
    \/ MainStep
    \/ SigInt
    \/ SignalHandler
    \/ \E c \in Conns :
         \/ ClientConnect(c)
         \/ ClientSend(c, CutFrames \cup PingFrames \cup {Frame("short", "")})
         \/ ClientClose(c)
         \/ WorkerStep(c)

FramingSpec == IpcInit /\ [][FramingNext]_vars

\* The daemon with its power monitor, with clients that connect and close
\* without sending a frame; MaxIdleConn of them connect.
MaxIdleConn == 1

Init == DaemonInit(TRUE, {GUID_HIGH_PERFORMANCE}, BOOLEAN)

Next ==
    \/ MainStep
    \/ SigInt
    \/ SignalHandler
    \/ PowerChange
    \/ \E k \in Chains : PollStep(k)
    \/ \E c \in 1..MaxIdleConn :
         \/ ClientConnect(c)
         \/ ClientClose(c)
         \/ WLoop(c)
         \/ WReadBroken(c)
         \/ WFinally(c)

Spec == Init /\ [][Next]_vars

\* The daemon started on the same device while WMI may be out of reach:
\* wmi.WMI() raises in DAMXManager.__init__, which logs it and goes on with
\* wmi_connection = None.
BootInventories ==
    {[wmi |-> w, system |-> "acer_predator", battery |-> "present", keyboard |-> "acer"] :
        w \in BOOLEAN}

BootInit == DaemonStart(BootInventories, TRUE, {GUID_HIGH_PERFORMANCE}, BOOLEAN)

BootSpec == BootInit /\ [][Next]_vars

\* Every thread of the daemon that can take a step eventually takes one; the
\* clients, the battery and the signal are under no obligation.
FairSpec ==
    /\ Spec
    /\ WF_vars(MainStep)
    /\ WF_vars(SignalHandler)
    /\ \A k \in Chains : WF_vars(PollStep(k))
    /\ \A c \in 1..MaxIdleConn : WF_vars(WLoop(c) \/ WReadBroken(c) \/ WFinally(c))

-----------------------------------------------------------------------------
(* Properties of the pipe server (under IpcSpec)                           *)

\* the frames of connection c that were read completely
CompleteReqs(c) == SelectSeq(reqs[c], LAMBDA f : f.prefix = "full")

\* the worker of c holds a response it has not passed to WriteFile yet
Answering(c) == wpc[c] \in {"write", "json_write", "generic_write"}

\* C4: on every connection each completely read request gets exactly one
\* WriteFile call with one response (a record with a success field), whatever
\* its payload is, and nothing else is ever written: the i-th write answers
\* the i-th request, and the only request without a write is the one the
\* worker is answering right now.
C4_OneResponsePerRequest ==
    \A c \in Conns :
        /\ Len(attempts[c]) = Len(CompleteReqs(c)) - (IF Answering(c) THEN 1 ELSE 0)
        /\ \A i \in DOMAIN attempts[c] :
             /\ attempts[c][i].req = i
             /\ "success" \in DOMAIN attempts[c][i].resp

C4_Witness ==
    \E c \in Conns :
        /\ Len(reqs[c]) = 2
        /\ reqs[c][1].payload = PNotJson
        /\ reqs[c][2].payload = PList
        /\ Len(attempts[c]) = 2
        /\ attempts[c][1].ok
        /\ attempts[c][2].ok

\* the payloads that are JSON texts (RFC 8259)
ValidJsonPayloads == {PGetVersion, PUnknown, PBadFan, PList}

\* the response each payload is due on the modelled device
AnswerTo(bytes) ==
    CASE bytes = PGetVersion -> DataResponse(JDict([version |-> JStr("0.4.6")]))
      [] bytes = PUnknown -> ErrorResponse("Unknown command: set_fan_curve")
      [] bytes = PBadFan ->
           ErrorResponse("'<=' not supported between instances of 'int' and 'str'")
      [] bytes = PList -> ErrorResponse("'list' object has no attribute 'get'")
      [] bytes = PBadUtf8 ->
           ErrorResponse("'utf-8' codec can't decode byte 0xff in position 0: invalid start byte")
      [] OTHER -> ErrorResponse("Invalid JSON format")

\* C5: a payload that is not valid JSON is answered with success = false and
\* the error "Invalid JSON format", and the next request on the connection
\* is answered as usual.
C5_InvalidJsonAnswered ==
    \A c \in Conns : \A i \in DOMAIN attempts[c] :
        reqs[c][i].payload \notin ValidJsonPayloads
        => /\ attempts[c][i].resp = [success |-> FALSE, error |-> JStr("Invalid JSON format")]
           /\ (i + 1) \in DOMAIN attempts[c]
                => attempts[c][i + 1].resp = AnswerTo(reqs[c][i + 1].payload)

\* the worker of c has read a frame whose length prefix was short
ShortPrefixRead(c) == reqs[c] # <<>> /\ reqs[c][Len(reqs[c])].prefix = "short"

\* C6: a worker that reads a short length prefix leaves its loop without a
\* WriteFile call for that frame; a handle is closed only by the worker of
\* its own connection or by stop(); every worker is inside handle_client or
\* has returned from it (no exception leaves it); and the accept loop keeps
\* its running flag until SIGINT is handled.
C6_ShortPrefixEndsOnlyItsConnection ==
    /\ \A c \in Conns :
         /\ ShortPrefixRead(c)
              => /\ wpc[c] \in {"finally", "exited"}
                 /\ Len(attempts[c]) = Len(reqs[c]) - 1
         /\ handle[c] = "closed"
              => wpc[c] = "exited" \/ main_pc \in {"cleanup_monitor", "done"}
         /\ wpc[c] \in {"none", "loop", "read", "write", "json_write",
                        "generic_write", "finally", "exited"}
    /\ (main_pc \in {"loop_test", "create_pipe", "accept", "spawn"} /\ ~signalled)
         => server_running

\* connection 1 ended on a short prefix, the accept loop is still waiting
\* and connection 2 was answered afterwards
C6_Witness ==
    /\ ShortPrefixRead(1)
    /\ wpc[1] = "exited"
    /\ handle[1] = "closed"
    /\ handle[2] = "open"
    /\ server_running
    /\ main_pc = "accept"
    /\ Len(attempts[2]) = 1
    /\ attempts[2][1].ok

\* C7: requests of one connection are answered in arrival order without
\* pipelining: when the worker is about to read, every request it has read
\* has had its write; at most one request is ever unanswered; and the i-th
\* write carries the answer to the i-th request.
C7_InOrderNoPipelining ==
    \A c \in Conns :
        /\ wpc[c] \in {"loop", "read"} => Len(attempts[c]) = Len(reqs[c])
        /\ Len(CompleteReqs(c)) - Len(attempts[c]) \in {0, 1}
        /\ \A i \in DOMAIN attempts[c] :
             /\ attempts[c][i].req = i
             /\ attempts[c][i].resp = AnswerTo(reqs[c][i].payload)

\* two requests were in the pipe together, and both have been answered
C7_Witness ==
    \E c \in Conns :
        /\ Len(attempts[c]) = 2
        /\ reqs[c][1].payload = PUnknown
        /\ reqs[c][2].payload = PGetVersion
        /\ attempts[c][1].ok
        /\ attempts[c][2].ok
        /\ attempts[c][1].resp # attempts[c][2].resp

-----------------------------------------------------------------------------
(* Properties of the power monitor and the shutdown (under Spec and        *)
(* FairSpec)                                                               *)

\* C8: for one observed change from AC to battery the poller calls
\* set_thermal_profile("balanced") once: between two observations of AC it
\* never makes a second call.
C8_OneSwitchPerTransition == switch_count <= 1

\* C9: once stop_monitoring() has returned no Timer of the poller is waiting
\* to fire.
C9_NoPollAfterStop ==
    monitor_stopped => \A k \in Chains : ppc[k] # "pending"

\* the accept loop has exited, cleanup() has stopped the server and the
\* poller, and every accepted handle is closed
ShutDown ==
    /\ main_pc = "done"
    /\ ~server_running
    /\ monitor_stopped
    /\ \A c \in Conns : handle[c] # "open"

\* every client that will ever connect has connected
AllConnected == \A c \in 1..MaxIdleConn : client[c] # "none"

\* C10: once SIGINT has been delivered the daemon eventually completes its
\* graceful shutdown (server stopped, monitor stopped, main returned) without
\* needing a further client to connect: every behaviour in which a client
\* slot stays free after the signal reaches the shut-down state.
C10_SigintShutsDown == signalled ~> (ShutDown \/ AllConnected)

-----------------------------------------------------------------------------
(* Properties of the getters and of set_fan_speed (under CmdSpec)          *)

\* the map a get_all_settings call returned
SettingsReturned == cmd_state = "returned" /\ last_cmd = "get_all_settings"
SettingsMap == last_resp.data.dict

\* C11: get_all_settings() never raises (the command answers success with
\* the map), and the feature of a getter whose platform query failed is left
\* out of the map: no thermal_profile entry when powercfg /getactivescheme
\* fails, no driver_version entry when the driver query raises.
C11_FailingGetterLeftOut ==
    SettingsReturned
    => /\ last_resp.success = TRUE
       /\ ("thermal_profile" \in available_features /\ ~last_env.platform.query_ok)
          => "thermal_profile" \notin DOMAIN SettingsMap
       /\ (wmi_ok /\ last_env.sensors.driver = "raises")
          => "driver_version" \notin DOMAIN SettingsMap

\* the scheme a successful set_thermal_profile(profile) leaves active
ActivatedBy(profile) ==
    set_thermal_profile(available_features, active_scheme, JStr(profile), TRUE).scheme

\* C14: after set_thermal_profile("performance") has succeeded, a
\* get_thermal_profile() whose platform query reports the scheme the set
\* left active returns "performance"; and a get_thermal_profile command
\* answered while that scheme is active and the query works reports
\* "performance" as the current profile.
C14_PerformanceRoundTrip ==
    /\ (/\ cmd_state = "returned"
        /\ last_cmd = "set_thermal_profile"
        /\ last_params = JDict([profile |-> JStr("performance")])
        /\ last_resp.success = TRUE)
       => get_thermal_profile(available_features, active_scheme, TRUE) = "performance"
    /\ (/\ cmd_state = "returned"
        /\ last_cmd = "get_thermal_profile"
        /\ "thermal_profile" \in available_features
        /\ last_env.platform.query_ok
        /\ active_scheme = ActivatedBy("performance"))
       => last_resp.data.dict.current = JStr("performance")

\* C14 witness: the set has run and activated the High Performance scheme
C14_Witness ==
    /\ cmd_state = "returned"
    /\ last_cmd = "set_thermal_profile"
    /\ last_params = JDict([profile |-> JStr("performance")])
    /\ last_resp.success = TRUE
    /\ last_calls = <<PowercfgSetActive(GUID_HIGH_PERFORMANCE)>>
    /\ active_scheme = GUID_HIGH_PERFORMANCE

\* a set_thermal_profile command that named one of the five profiles
NamedProfileSet ==
    /\ cmd_state = "returned"
    /\ last_cmd = "set_thermal_profile"
    /\ "thermal_profile" \in available_features
    /\ IsDict(last_params)
    /\ IsStr(RequestedProfile)
    /\ RequestedProfile.str \in ProfileNames

\* C15: the five profile names are mapped 1:1 to power-scheme identifiers:
\* the identifier set_thermal_profile(p) activated is not the one that any
\* other of the five names would activate.
C15_ProfilesMapOneToOne ==
    (NamedProfileSet /\ last_resp.success = TRUE)
    => \A q \in ProfileNames \ {RequestedProfile.str} :
          ActivatedBy(q) # active_scheme

\* the Windows scheme behind each profile name
SchemeOf(p) ==
    CASE p \in {"low-power", "quiet"} -> GUID_POWER_SAVER
      [] p = "balanced" -> GUID_BALANCED
      [] p \in {"balanced-performance", "performance"} -> GUID_HIGH_PERFORMANCE

\* C15 (amended): the five profile names are mapped onto three power
\* schemes: low-power and quiet activate Power Saver, balanced activates
\* Balanced, balanced-performance and performance activate High Performance;
\* names of different groups activate different identifiers.
C15_ProfilesMapToThreeSchemes ==
    /\ Cardinality({GUID_POWER_SAVER, GUID_BALANCED, GUID_HIGH_PERFORMANCE}) = 3
    /\ NamedProfileSet
       => /\ last_calls = <<PowercfgSetActive(SchemeOf(RequestedProfile.str))>>
          /\ last_resp.success = TRUE => active_scheme = SchemeOf(RequestedProfile.str)

\* C15 witness: quiet was set while Balanced was not the result
C15_Witness ==
    /\ NamedProfileSet
    /\ RequestedProfile.str = "quiet"
    /\ last_resp.success = TRUE
    /\ active_scheme = GUID_POWER_SAVER

\* a set_fan_speed command with both speeds in 0..100 on a device with
\* fan_speed, answered while none of the three vendor control methods works
FallbackCase ==
    /\ cmd_state = "returned"
    /\ last_cmd = "set_fan_speed"
    /\ "fan_speed" \in available_features
    /\ IsDict(last_params)
    /\ "int" \in DOMAIN RequestedCpu /\ ~OutOfRange(RequestedCpu)
    /\ "int" \in DOMAIN RequestedGpu /\ ~OutOfRange(RequestedGpu)
    /\ last_env.platform.controller # "ok"
    /\ last_env.platform.acmc # "ok"
    /\ last_env.platform.ps # "exit0"

\* the schemes powercfg /setactive was called with during the last command
SchemesRequested ==
    {last_calls[i][3] : i \in {j \in DOMAIN last_calls : last_calls[j][1] = "powercfg"}}

\* C16: in that case set_fan_speed succeeds exactly when cpu >= 80 and
\* gpu >= 80, where it requests the scheme of "performance", or cpu = 0 and
\* gpu = 0, where it requests the scheme of "balanced"; for every other pair
\* it fails and requests no scheme.
C16_FanFallbackCases ==
    FallbackCase
    => LET cpu == RequestedCpu.int
           gpu == RequestedGpu.int
       IN  /\ (cpu >= 80 /\ gpu >= 80)
              => last_resp.success = TRUE /\ SchemesRequested = {GUID_HIGH_PERFORMANCE}
           /\ (cpu = 0 /\ gpu = 0)
              => last_resp.success = TRUE /\ SchemesRequested = {GUID_BALANCED}
           /\ (~(cpu >= 80 /\ gpu >= 80) /\ ~(cpu = 0 /\ gpu = 0))
              => last_resp.success = FALSE /\ SchemesRequested = {}

\* C16 witness: one speed is high and the other is not; the request fails
\* after all three methods were tried, with no scheme requested
C16_Witness ==
    /\ FallbackCase
    /\ last_params = JDict([cpu |-> JInt(100), gpu |-> JInt(79)])
    /\ last_env.platform.controller = "raises"
    /\ last_resp.success = FALSE
    /\ Len(last_calls) > 0
    /\ SchemesRequested = {}

\* what each of the four query methods of get_fan_speed reads on its own:
\* the Acer gaming classes, Win32_Fan, Open Hardware Monitor, Libre Hardware
\* Monitor
MethodReadings(wmiroot, se) ==
    LET a == SensorUpdate(<<"0", "0">>, se.combined)
    IN  <<IF a # <<"0", "0">> THEN a
          ELSE SensorUpdate(a, [cpu |-> se.cpu_cls, gpu |-> se.gpu_cls]),
          SensorUpdate(<<"0", "0">>,
                       [cpu |-> IF wmiroot THEN se.win32_fan ELSE "none", gpu |-> "none"]),
          SensorUpdate(<<"0", "0">>, se.ohm),
          SensorUpdate(<<"0", "0">>, se.lhm)>>

\* the readings of the first method with a non-zero reading
FirstNonZero(readings) ==
    LET hits == {i \in DOMAIN readings : readings[i] # <<"0", "0">>}
    IN  IF hits = {} THEN <<"0", "0">>
        ELSE readings[CHOOSE i \in hits : \A j \in hits : i <= j]

\* C17: get_fan_speed returns the readings of the first of its four methods
\* that yields a non-zero reading, never replaced by what a later method
\* reads, and ("0","0") when every method yields zero.
C17_FirstNonZeroMethodWins ==
    (SettingsReturned /\ "fan_speed" \in available_features)
    => LET r == FirstNonZero(MethodReadings(wmi_ok, last_env.sensors))
       IN  SettingsMap.fan_speed = JDict([cpu |-> JStr(r[1]), gpu |-> JStr(r[2])])

\* C18: the map of get_all_settings() holds a feature's key exactly when
\* the feature is in available_features, for each of the ten features.
C18_KeysOfEnabledFeaturesOnly ==
    SettingsReturned
    => \A f \in Features : f \in DOMAIN SettingsMap <=> f \in available_features

\* the entry get_all_settings gives an unavailable thermal_profile
EmptyThermalEntry == JDict([current |-> JStr(""), available |-> JList(<<>>)])

\* C18 (amended): the map holds the key of each feature other than
\* thermal_profile exactly when that feature is in available_features; the
\* thermal_profile key is always there, with the empty entry (current "",
\* available []) when the feature is not available.
C18_KeysOfEnabledFeaturesAndThermal ==
    SettingsReturned
    => /\ \A f \in Features \ {"thermal_profile"} :
             f \in DOMAIN SettingsMap <=> f \in available_features
       /\ "thermal_profile" \in DOMAIN SettingsMap
       /\ "thermal_profile" \notin available_features
          => SettingsMap.thermal_profile = EmptyThermalEntry

\* C18 witness: a device without any feature (the battery query raised)
\* still gets the thermal_profile key, and no other feature key
C18_Witness ==
    /\ SettingsReturned
    /\ available_features = {}
    /\ SettingsMap.thermal_profile = EmptyThermalEntry
    /\ DOMAIN SettingsMap \cap Features = {"thermal_profile"}

\* C19: the device profile is read-only after startup: no step, whatever
\* command it handles (the force_*_model, force_enable_all and
\* *_modprobe_parameter commands among them), changes laptop_type,
\* has_four_zone_kb or available_features.
C19_DeviceProfileReadOnly ==
    [][UNCHANGED <<laptop_type, has_four_zone_kb, available_features>>]_vars

\* C19 witness: force_enable_all was handled on a device that detected
\* thermal_profile only, and the profile is what it was
C19_Witness ==
    /\ cmd_state = "returned"
    /\ last_cmd = "force_enable_all"
    /\ laptop_type = "UNKNOWN"
    /\ ~has_four_zone_kb
    /\ available_features = {"thermal_profile"}

-----------------------------------------------------------------------------
(* Properties of the startup (under BootSpec)                              *)

\* C12: when WMI cannot be reached at startup, setup fails: main never gets
\* past setup(), the pipe server is never created or started and no poll of
\* the power source is ever run or scheduled.
C12_WmiUnreachableStopsStartup ==
    ~wmi_ok
    => /\ main_pc = "setup"
       /\ ~server_created
       /\ ~server_running
       /\ timer = 0
       /\ \A k \in Chains : ppc[k] = "idle"

-----------------------------------------------------------------------------
(* Properties of the accept loop and its workers (under FairIpcSpec)       *)

\* the client of c is connected and its worker is blocked in ReadFile,
\* waiting for a request
Blocked(c) ==
    /\ client[c] = "open"
    /\ handle[c] = "open"
    /\ wpc[c] = "read"
    /\ inbox[c] = <<>>

\* the worker of d is in its loop and has a request to read or to answer
Owed(d) ==
    /\ wpc[d] \in {"loop", "read", "write", "json_write", "generic_write"}
    /\ inbox[d] # <<>> \/ Answering(d)

\* C13: while the worker of a connected client is blocked waiting for a
\* request, the accept loop still gets to wait for the next client (unless
\* the server is being stopped), and every request owed on another
\* connection is read and its response written (or that worker leaves its
\* loop), without a step of the blocked connection being needed.
C13_IdleClientBlocksNobody ==
    \A c \in Conns :
        /\ Blocked(c) ~> (main_pc = "accept" \/ ~server_running)
        /\ \A d \in Conns \ {c} : (Blocked(c) /\ Owed(d)) ~> ~Owed(d)

\* C13 witness: the first client connected and never sent anything, its
\* worker is blocked; the second client was accepted after it and has its
\* answer; the accept loop waits for a third
C13_Witness ==
    /\ Blocked(1)
    /\ reqs[1] = <<>>
    /\ client[2] = "open"
    /\ \E i \in DOMAIN attempts[2] : attempts[2][i].ok
    /\ main_pc = "accept"

-----------------------------------------------------------------------------
(* Properties of the power-change handler (under Spec)                     *)

BatteryFriendly == {"balanced", "quiet", "low-power"}

\* the profile get_thermal_profile reads while the platform query works
ProfileRead == get_thermal_profile(available_features, active_scheme, TRUE)

\* C20: the power-change handler goes on to call set_thermal_profile only
\* when it was called for Battery and the profile it read is not
\* battery-friendly; called for AC, or for Battery with a battery-friendly
\* profile, it returns without a set call and the active scheme stays; and
\* the active scheme changes only in a set call the handler decided on.
C20_HandlerSetsOnlyOnBattery ==
    [][/\ \A k \in Chains :
            /\ (ppc[k] = "handle" /\ ppc'[k] = "set")
               => /\ ~plugged[k]
                  /\ ProfileRead \notin BatteryFriendly
                  /\ target'[k] \in BatteryFriendly
            /\ (/\ ppc[k] = "handle"
                /\ ppc'[k] # "handle"
                /\ plugged[k] \/ ProfileRead \in BatteryFriendly)
               => /\ ppc'[k] = "schedule"
                  /\ target'[k] = ""
                  /\ active_scheme' = active_scheme
       /\ active_scheme' # active_scheme
          => \E k \in Chains : ppc[k] = "set" /\ ppc'[k] = "schedule"]_vars

\* C20 witness: Battery was observed while the Balanced scheme (set at an
\* earlier transition) was active; the handler has returned in every chain
\* and no set call was made since AC was last observed
C20_Witness ==
    /\ current_source = JBool(FALSE)
    /\ active_scheme = GUID_BALANCED
    /\ switch_count = 0
    /\ \A k \in Chains : ppc[k] \in {"schedule", "pending"} /\ target[k] = ""
    /\ \E k \in Chains : ppc[k] = "schedule" /\ ~plugged[k]

-----------------------------------------------------------------------------
(* Properties of check_power_source (under Spec)                           *)

\* chain k enters, runs in, or leaves _handle_power_change in this step
HandlerEntered(k) == ppc[k] # "handle" /\ ppc'[k] = "handle"
HandlerStep(k) == ppc[k] \in {"handle", "set"} /\ ppc'[k] # ppc[k]

\* C21 as stated: when a poll observes a state different from the last
\* observed one, the handler is entered while current_source still holds the
\* old value, and current_source changes only in the step in which a handler
\* returns.
C21_HandlerBeforeUpdate ==
    [][/\ \A k \in Chains : HandlerEntered(k) => current_source' = current_source
       /\ current_source' # current_source
          => \E k \in Chains : HandlerStep(k) /\ ppc'[k] = "schedule"]_vars

\* C21 amended: current_source is updated first and the handler is called
\* afterwards: the step that enters the handler of a check is the assignment
\* of the observed state to current_source, no step of the handler assigns
\* current_source, and current_source changes in no other step.
C21_UpdateBeforeHandler ==
    [][/\ \A k \in Chains :
            /\ HandlerEntered(k) => current_source' = JBool(plugged[k])
            /\ HandlerStep(k) => current_source' = current_source
       /\ current_source' # current_source
          => \E k \in Chains : HandlerEntered(k)]_vars

\* C21 witness: the handler of a check that observed Battery is
\* about to call set_thermal_profile, and current_source already says Battery
C21_Witness ==
    \E k \in Chains :
        /\ ppc[k] = "set"
        /\ ~plugged[k]
        /\ current_source = JBool(FALSE)
        /\ ~on_ac

-----------------------------------------------------------------------------
(* Properties of the payload read (under FramingSpec)                      *)

\* request i of connection c was read with fewer payload bytes than its
\* prefix announced
ShortPayloadRead(c, i) == reqs[c][i].prefix = "full" /\ reqs[c][i].missing > 0

\* C22: a payload is decoded and dispatched only when all the bytes the
\* prefix announced were read; after a short payload read the request is
\* neither dispatched nor answered and the worker leaves its loop, so that
\* the short request is the last one read on its connection.
C22_ShortPayloadEndsConnection ==
    \A c \in Conns : \A i \in DOMAIN reqs[c] :
        ShortPayloadRead(c, i)
        => /\ i = Len(reqs[c])
           /\ wpc[c] \in {"finally", "exited"}
           /\ wresp[c] = None
           /\ \A n \in DOMAIN attempts[c] : attempts[c][n].req # i

-----------------------------------------------------------------------------
(* Properties of the exception clauses of handle_client (under IpcSpec)    *)

\* the payloads whose decoding or dispatch raises: not JSON, not UTF-8, a
\* JSON list in place of an object, a string passed as a fan speed
RaisingPayloads == {PNotJson, PBadUtf8, PList, PBadFan}

\* the request the worker of c read last, and the last WriteFile call of c
LastReq(rs) == rs[Len(rs)]
LastAttempt(as) == as[Len(as)]

\* C23: an exception raised while a completely read request is decoded or
\* dispatched never ends the worker's loop: the read step leaves the worker
\* at a WriteFile call with a response whose success is false and whose
\* error is a non-empty string, that response is what the call writes on
\* the same connection, and when the write is done the worker is back at
\* the top of its loop.
C23_RaisedBecomesErrorResponse ==
    [][\A c \in Conns :
         /\ (/\ wpc[c] = "read"
             /\ Len(reqs'[c]) = Len(reqs[c]) + 1
             /\ LastReq(reqs'[c]).prefix = "full"
             /\ LastReq(reqs'[c]).payload \in RaisingPayloads)
            => /\ wpc'[c] \in {"write", "json_write", "generic_write"}
               /\ wresp'[c].success = FALSE
               /\ IsStr(wresp'[c].error)
               /\ wresp'[c].error.str # ""
               /\ ~("data" \in DOMAIN wresp'[c])
         /\ (/\ Answering(c)
             /\ wpc'[c] # wpc[c]
             /\ LastReq(reqs[c]).payload \in RaisingPayloads)
            => /\ Len(attempts'[c]) = Len(attempts[c]) + 1
               /\ LastAttempt(attempts'[c]).req = Len(reqs[c])
               /\ LastAttempt(attempts'[c]).resp = wresp[c]
               /\ LastAttempt(attempts'[c]).ok => wpc'[c] = "loop"]_vars

\* C23 witness: a JSON list was answered with an error response and the
\* get_version request after it was read and answered on the same connection
C23_Witness ==
    \E c \in Conns :
        /\ Len(attempts[c]) = 2
        /\ reqs[c][1].payload = PList
        /\ reqs[c][2].payload = PGetVersion
        /\ attempts[c][1].ok
        /\ attempts[c][1].resp.success = FALSE
        /\ attempts[c][2].ok
        /\ attempts[c][2].resp.success = TRUE
        /\ handle[c] = "open"

-----------------------------------------------------------------------------
(* Properties of the administrative commands (under CmdSpec)               *)

ForceCommands == {"force_nitro_model", "force_predator_model", "force_enable_all"}
RestartCommands == {"restart_daemon", "restart_drivers_and_daemon"}

\* this step is process_command handling one of the commands cmds
Handles(cmds) == cmd_state = "idle" /\ cmd_state' = "returned" /\ last_cmd' \in cmds

\* the step assigns nothing of the manager, the platform or the daemon
DaemonStateKept == UNCHANGED <<mgrVars, platVars, mainVars, connVars, pollVars>>

\* C24 as stated: handling restart_daemon, restart_drivers_and_daemon,
\* force_nitro_model, force_predator_model or force_enable_all runs no
\* external process and makes no platform call, changes no daemon state, and
\* returns a response.
C24_AdminCommandsAreNoOps ==
    [][Handles(ForceCommands \cup RestartCommands)
       => /\ last_calls' = <<>>
          /\ DaemonStateKept
          /\ "success" \in DOMAIN last_resp']_vars

\* C24 amended: the three force_* commands are no-ops that answer failure;
\* the two restart commands run the service control tool, sc stop DAMXDaemon
\* first and then sc start DAMXDaemon, answer success exactly when both ran
\* and the start succeeded, and assign no daemon state themselves.
C24_ForceNoOpsRestartRunsSc ==
    [][/\ Handles(ForceCommands)
          => /\ last_calls' = <<>>
             /\ DaemonStateKept
             /\ last_resp'.success = FALSE
       /\ Handles(RestartCommands)
          => /\ last_calls' \in {<<ScStop>>, <<ScStop, ScStart>>}
             /\ DaemonStateKept
             /\ last_resp'.success = TRUE
                  <=> (last_calls' = <<ScStop, ScStart>> /\ last_env'.platform.sc = "ok")]_vars

\* C24 witness: restart_drivers_and_daemon was handled, both sc commands
\* ran and the answer is success
C24_Witness ==
    /\ cmd_state = "returned"
    /\ last_cmd = "restart_drivers_and_daemon"
    /\ last_calls = <<ScStop, ScStart>>
    /\ last_resp.success = TRUE
    /\ "message" \in DOMAIN last_resp

-----------------------------------------------------------------------------
(* Properties of the first poll (under Spec)                               *)

\* the check that setup()'s start_monitoring() runs, the first of the daemon
FirstPoll == main_pc = "setup_monitor"

\* chain 1 goes from position a to another position in this step
Leaves(a) == ppc[1] = a /\ ppc'[1] # a

-----------------------------------------------------------------------------
(* Properties of the poll chains (under Spec)                              *)

\* the chains whose Timer is waiting, and those whose check is running
PendingChains == {k \in Chains : ppc[k] = "pending"}
RunningChains ==
    {k \in Chains : ppc[k] \in {"compare", "assign", "handle", "set", "schedule"}}

\* C26: there is at most one chain of polls: at most one Timer is waiting
\* or check running at a time, a waiting Timer is the one self.timer refers
\* to, and no two checks are inside the power-change handler together.
C26_SinglePollChain ==
    /\ Cardinality(PendingChains \cup RunningChains) <= 1
    /\ \A k \in PendingChains : timer = k
    /\ Cardinality({k \in Chains : ppc[k] \in {"handle", "set"}}) <= 1

-----------------------------------------------------------------------------
(* Properties of a failing power query (under Spec)                        *)

\* chain k runs self._is_ac_connected() in this step
Queries(k) == ppc[k] \in {"idle", "pending"} /\ ppc'[k] = "compare"

\* chain k goes from position a to position b in this step
Moves(k, a, b) == ppc[k] = a /\ ppc'[k] = b

\* C27: a query that fails is an observation of Battery: a check observes
\* AC only when the machine is on AC, so that on AC a check can observe
\* Battery.  A check that observed Battery while current_source was AC or
\* None stores Battery and calls the handler, which calls
\* set_thermal_profile("balanced") when the profile it read is not
\* battery-friendly, whatever the real power source is.
C27_QueryErrorIsBattery ==
    [][\A k \in Chains :
         /\ Queries(k) => (plugged'[k] => on_ac)
         /\ (~plugged[k] /\ ppc[k] = "compare" /\ ppc'[k] # "compare"
               /\ current_source \in {None, JBool(TRUE)})
            => ppc'[k] = "assign"
         /\ (~plugged[k] /\ Moves(k, "assign", "handle"))
            => current_source' = JBool(FALSE)
         /\ (~plugged[k] /\ ppc[k] = "handle" /\ ppc'[k] # "handle"
               /\ handler_profile'[k] \notin BatteryFriendly)
            => ppc'[k] = "set" /\ target'[k] = "balanced"]_vars

\* C27 witness: the machine is on AC and was observed on AC before, the
\* last check stored Battery, and its handler has replaced High Performance
\* by Balanced
C27_Witness ==
    /\ on_ac
    /\ main_pc = "accept"
    /\ current_source = JBool(FALSE)
    /\ active_scheme = GUID_BALANCED
    /\ switch_count = 1
    /\ \E k \in Chains : ppc[k] = "schedule" /\ ~plugged[k]
    /\ \E k \in Chains : ppc[k] = "pending" /\ plugged[k]

-----------------------------------------------------------------------------
(* Properties of the responses of process_command (under CmdSpec)          *)

\* the response carries key with a value other than null
NonNull(resp, key) == key \in DOMAIN resp /\ resp[key] # None

WellFormed(resp) ==
    /\ "success" \in DOMAIN resp
    /\ resp.success \in BOOLEAN
    /\ resp.success = FALSE
         => /\ NonNull(resp, "error")
            /\ IsStr(resp.error)
            /\ resp.error.str # ""
            /\ ~NonNull(resp, "data")
    /\ resp.success = TRUE
         => /\ ~NonNull(resp, "error")
            /\ NonNull(resp, "data") \/ NonNull(resp, "message")

\* the names process_command has no branch for: no such command, and the
\* default of request.get("command", "")
UnknownNames == {"set_fan_curve", ""}

\* C28: every response of process_command is well formed, whatever the
\* command and the params: success is a boolean; with success false there
\* is a non-empty error string and no data; with success true there is no
\* error and there is data or a message.  A name without a branch is
\* answered success = false, error = "Unknown command: <name>".
C28_ResponsesWellFormed ==
    cmd_state = "returned"
    => /\ WellFormed(last_resp)
       /\ last_cmd \in UnknownNames
            => last_resp = [success |-> FALSE,
                            error |-> JStr("Unknown command: " \o last_cmd)]

\* C28 witness: a request without a command name and with params that are
\* not a mapping was answered "Unknown command: "
C28_Witness ==
    /\ cmd_state = "returned"
    /\ last_cmd = ""
    /\ last_params \in NonDictParams
    /\ last_resp.success = FALSE
    /\ last_resp.error = JStr("Unknown command: ")

-----------------------------------------------------------------------------
(* Properties of the fallback of set_fan_speed (under CmdSpec)             *)

\* the fallback case with speeds for which it switches the thermal profile
ProfileFallback ==
    /\ FallbackCase
    /\ \/ RequestedCpu.int >= 80 /\ RequestedGpu.int >= 80
       \/ RequestedCpu.int = 0 /\ RequestedGpu.int = 0

\* C29: in the thermal-profile fallback the answer does not depend on the
\* outcome of the profile switch: the command is answered success with the
\* requested speeds as data after one powercfg /setactive call, whether or
\* not that call worked; when it failed the active scheme is what it was,
\* so success is answered although no platform call succeeded.
C29_FallbackIgnoresProfileResult ==
    [][(cmd_state = "idle" /\ ProfileFallback')
       => /\ last_resp'.success = TRUE
          /\ last_resp'.data = JDict([cpu |-> RequestedCpu', gpu |-> RequestedGpu'])
          /\ Cardinality(SchemesRequested') = 1
          /\ IF last_env'.platform.powercfg_ok
               THEN {active_scheme'} = SchemesRequested'
               ELSE active_scheme' = active_scheme]_vars

\* C29 witness: every vendor method and powercfg /setactive failed, High
\* Performance was asked for while Power Saver stays active, and the
\* answer is success
C29_Witness ==
    /\ ProfileFallback
    /\ last_params = JDict([cpu |-> JInt(100), gpu |-> JInt(80)])
    /\ ~last_env.platform.powercfg_ok
    /\ SchemesRequested = {GUID_HIGH_PERFORMANCE}
    /\ active_scheme = GUID_POWER_SAVER
    /\ last_resp.success = TRUE

====
